---------------------------- MODULE Spec2Model ----------------------------
(***************************************************************************)
(* A model of the resume one-page auto-fit system:                         *)
(*   - the render context (js/resume_renderer.js): handshake timer,        *)
(*     message handler, content/style handlers, the locked render pass     *)
(*     handlePagedRender and its pending replay;                           *)
(*   - the host controller (js/controller.js): sendMessageToIframe,        *)
(*     handleMessage, handleViewerReady;                                   *)
(*   - the auto-fit engine (window.simpleViewer.fitToOnePage);             *)
(*   - the shared store with the Paged.js middleware and the               *)
(*     RenderTaskProcessor (js/controller.js, js/config.example.js).       *)
(*                                                                         *)
(* JavaScript runs one task at a time: every action below is one run of a  *)
(* handler from its entry to its first suspension point (an await on a     *)
(* promise that is not yet settled, or its return).                        *)
(*                                                                         *)
(* Numbers of CSS lengths are kept in thousandths (9pt = 9000) so that the *)
(* 0.001 tolerance and the rounding to two decimals of the auto-fit steps  *)
(* are computed as the code computes them.                                 *)
(***************************************************************************)
EXTENDS Integers, Sequences, FiniteSets, TLC

VARIABLES
    state,        \* resume_renderer.js `state` object
    body,         \* document.body.innerHTML of the render context
    head,         \* document.head.innerHTML of the render context
    rootStyle,    \* inline custom properties of document.documentElement
    bodyClass,    \* document.body.classList
    inflight,     \* render passes suspended at `await previewer.preview()`
    started,      \* history: number of render passes started so far
    lastPass,     \* history: the render pass started last
    lastEnded,    \* history: how the oracle call of the pass that ended last went
    lockedReqs,   \* history: requests refused by the lock since the running pass began
    lastLockedReq,\* history: currentStyles as seen by the last refused request
    settled,      \* history: how the promise of the last ended pass settled
    toParent,     \* window.parent.postMessage log of the render context
    ticks,        \* history: firings of the handshake interval
    readySent,    \* history: READY messages posted
    ctl,          \* ResumeController fields of the host
    posted,       \* iframe.contentWindow.postMessage log of the host
    delivered,    \* how many of `posted` the render context has handled
    handed,       \* history: every command handed to sendMessageToIframe
    parentRead,   \* how many of `toParent` the host has handled
    fit,          \* window.simpleViewer and the position of fitToOnePage
    store,        \* ResumeStateManager: state and history
    proc,         \* RenderTaskProcessor: isProcessing, processingTimeout
    now,          \* the wall clock, in ms
    audit,        \* history: changes recorded and passes started by the processor
    pair,         \* history: the last two passes that ended, and the messages since
    sm,           \* a ResumeStateManager with its subscribers and callers
    sc            \* the StyleController and the operations asked of it

renderVars == <<state, body, head, rootStyle, bodyClass, inflight, started,
                lastPass, lastEnded, lockedReqs, lastLockedReq, settled, toParent>>

hostVars == <<ctl, posted, handed, parentRead>>

linkVars == <<ticks, readySent, delivered>>

\* What the handshake and the render pipeline leave alone
queueVars == <<store, proc, now, audit>>

restVars == <<fit, queueVars, pair, sm, sc>>

vars == <<renderVars, hostVars, linkVars, restVars>>

-----------------------------------------------------------------------------
(* Bounds of the model *)

MaxPasses == 3        \* render passes started in one behaviour
MaxContent == 2       \* distinct contents the host sends
MaxPages == 2         \* pages the oracle may report
MaxLockedReqs == 2    \* requests counted while the lock is held
MaxEvents == 3        \* interval firings plus user commands in one behaviour
MaxDispatches == 3    \* dispatches made to the store from outside
MaxTime == 1100       \* the clock stops here, ms
MaxStoreDispatches == 52  \* dispatches from outside to the state manager alone

-----------------------------------------------------------------------------
(* CSS custom properties and their values *)

CssVars == {"--body-font-size", "--heading-scale", "--line-height", "--page-margin",
            "--title-hr-margin", "--body-margin", "--ul-margin",
            "--strong-paragraph-margin"}

\* A CSS value is a number (in thousandths) with a unit suffix; a property that
\* was never set reads as the empty string.
Unset == [n |-> 0, u |-> "unset"]
Css(n, u) == [n |-> n, u |-> u]

NoStyles == [k \in CssVars |-> Unset]

\* Object.assign(target, source) / { ...target, ...source }
ObjectAssign(target, source) ==
    [k \in CssVars |-> IF source[k] # Unset THEN source[k] ELSE target[k]]

\* ResumeConfig.defaultStyles as applyDefaultStyles formats them
DefaultStyles ==
    [k \in CssVars |->
        CASE k = "--body-font-size" -> Css(9000, "pt")
          [] k = "--heading-scale" -> Css(1700, "")
          [] k = "--line-height" -> Css(1450, "")
          [] k = "--page-margin" -> Css(7000, "mm")
          [] k = "--title-hr-margin" -> Css(0, "em")
          [] k = "--body-margin" -> Css(500, "em")
          [] k = "--ul-margin" -> Css(0, "em")
          [] OTHER -> Css(200, "em")]

\* Style payloads the host sends in this model: slider values of two sliders
StylePayloads ==
    { [NoStyles EXCEPT !["--page-margin"] = Css(n, "mm")] : n \in {8000} }
    \cup { [NoStyles EXCEPT !["--body-font-size"] = Css(9500, "pt")] }

-----------------------------------------------------------------------------
(* The document of the render context *)

\* body.innerHTML: the content inside #content, and the output of Paged.js
\* (pages = number of .pagedjs_page elements, 0 when the markup is unrendered;
\* sparse = the fill ratio of the page is below the threshold).
Markup(c) == [content |-> c, pages |-> 0, sparse |-> FALSE]
Skeleton == Markup(0)

\* head.innerHTML: the forced @page rule (its margin) and the style sheets that
\* Paged.js adds while it renders.
NoRule == Unset
HeadOf(a4, paged) == [a4 |-> a4, paged |-> paged]
PlainHead == HeadOf(NoRule, FALSE)

NoRequest == [set |-> FALSE, styles |-> NoStyles]
Request(styles) == [set |-> TRUE, styles |-> styles]

\* The render context as one record, so that a handler is a function from the
\* context before it runs to the context after it.
RC == [state |-> state, body |-> body, head |-> head, rootStyle |-> rootStyle,
       bodyClass |-> bodyClass, inflight |-> inflight, started |-> started,
       lastPass |-> lastPass, lastEnded |-> lastEnded, lockedReqs |-> lockedReqs, lastLockedReq |-> lastLockedReq,
       settled |-> settled, toParent |-> toParent]

SetRC(w) ==
    /\ state' = w.state
    /\ body' = w.body
    /\ head' = w.head
    /\ rootStyle' = w.rootStyle
    /\ bodyClass' = w.bodyClass
    /\ inflight' = w.inflight
    /\ started' = w.started
    /\ lastPass' = w.lastPass
    /\ lastEnded' = w.lastEnded
    /\ lockedReqs' = w.lockedReqs
    /\ lastLockedReq' = w.lastLockedReq
    /\ settled' = w.settled
    /\ toParent' = w.toParent


-----------------------------------------------------------------------------
(* resume_renderer.js: style update and the locked render pass *)

\* handleStyleUpdate(styles): cache every entry and set it on the root element
HandleStyleUpdate(w, styles) ==
    [w EXCEPT !.state.currentStyles = ObjectAssign(@, styles),
              !.rootStyle = ObjectAssign(@, styles)]

\* getComputedStyle(document.documentElement).getPropertyValue(cssVar)
ComputedStyle(w, cssVar) == w.rootStyle[cssVar]

\* ensureA4PageRule(): the forced @page rule takes the computed page margin,
\* or 7mm when there is none
EnsureA4PageRule(w) ==
    [w EXCEPT !.head.a4 = IF ComputedStyle(w, "--page-margin") # Unset
                          THEN ComputedStyle(w, "--page-margin")
                          ELSE Css(7000, "mm")]

\* (mutant: the lock is never found taken)
RenderLocked_Never(st) == FALSE

\* `if (state.isRendering)`: the race condition protection
RenderLocked(st) == st.isRendering

\* (mutant: a request already pending is kept, first write wins)
QueueRequest_FirstWins(st) ==
    IF st.pendingRenderRequest.set
    THEN st
    ELSE [st EXCEPT !.pendingRenderRequest = Request(st.currentStyles)]

\* `state.pendingRenderRequest = { ...state.currentStyles }`
QueueRequest(st) == [st EXCEPT !.pendingRenderRequest = Request(st.currentStyles)]

\* (mutant: the pass works on the document as the last pass left it)
RestoreCleanDom_Skip(w) == w

\* `1. Restore Clean DOM`: the body, then the head, from the snapshots
RestoreCleanDom(w) ==
    [w EXCEPT !.body = w.state.originalBody,
              !.head = w.state.originalHead]

\* The pass up to its suspension at `await previewer.preview()`: take the
\* lock, tell the parent, restore the clean DOM, re-apply the cached styles,
\* inject the page rule and invoke the oracle.
BeginPass(w, replay) ==
    LET id == w.started + 1
        w1 == RestoreCleanDom([w EXCEPT !.state.isRendering = TRUE,
                                        !.toParent = Append(@, "rendering")])
        w2 == EnsureA4PageRule(HandleStyleUpdate(w1, w1.state.currentStyles))
    IN [w2 EXCEPT !.inflight = @ \cup {id},
                  !.lockedReqs = 0,
                  !.started = id,
                  !.lastPass = [styles |-> w2.rootStyle,
                                onPaged |-> w2.body.pages > 0,
                                replay |-> replay,
                                coalesced |-> w.lockedReqs]]

\* handlePagedRender(extraStyles) from its entry to its first suspension
HandlePagedRender(w, extraStyles, replay) ==
    LET w1 == [w EXCEPT !.state.currentStyles = ObjectAssign(@, extraStyles)]
    IN IF RenderLocked(w1.state)
       THEN [w1 EXCEPT !.state = QueueRequest(w1.state),
                       !.lockedReqs = @ + 1,
                       !.lastLockedReq = w1.state.currentStyles]
       ELSE BeginPass(w1, replay)

\* `finally`: release the lock, then replay the pending request if there is one
FinallyBlock(w) ==
    LET w1 == [w EXCEPT !.state.isRendering = FALSE]
        next == w1.state.pendingRenderRequest
    IN IF next.set
       THEN HandlePagedRender([w1 EXCEPT !.state.pendingRenderRequest = NoRequest],
                              next.styles, TRUE)
       ELSE w1

\* `catch (e)`: log, and fall back to the clean DOM
CatchBlock(w) ==
    [w EXCEPT !.body = w.state.originalBody,
              !.head = w.state.originalHead]

\* The rest of the pass after preview() returned: the oracle has laid the
\* content it was given out on `pages` pages.
AfterPreview(w, id, pages, sparse) ==
    LET w1 == [w EXCEPT !.body = [content |-> w.body.content,
                                  pages |-> pages, sparse |-> sparse],
                        !.head.paged = TRUE,
                        !.bodyClass = @ \cup {"render-complete"},
                        !.toParent = @ \o <<"rendered", "RENDER_COMPLETE">>,
                        !.inflight = @ \ {id},
                        !.lastEnded = "ok",
                        !.settled = "fulfilled"]
    IN FinallyBlock(w1)

\* (mutant: the lock is released at the end of `try`, not in `finally`)
AfterPreviewThrew_NoFinally(w, id) ==
    [CatchBlock(w) EXCEPT !.inflight = @ \ {id},
                          !.lastEnded = "failed",
                          !.settled = "fulfilled"]

\* The rest of the pass after preview() threw
AfterPreviewThrew(w, id) ==
    LET w1 == [CatchBlock(w) EXCEPT !.inflight = @ \ {id},
                                    !.lastEnded = "failed",
                                    !.settled = "fulfilled"]
    IN FinallyBlock(w1)

\* handleContentUpdate(markdown): put the rendered markdown into #content,
\* take the body as the new snapshot and start the initial render
HandleContentUpdate(w, c) ==
    LET w1 == [w EXCEPT !.body.content = c]
        w2 == [w1 EXCEPT !.state.originalBody = w1.body,
                         !.state.contentLoaded = TRUE]
    IN HandlePagedRender(w2, NoStyles, FALSE)

\* applyDefaultStyles(): only when ResumeConfig.defaultStyles is there
ApplyDefaultStyles(w, configLoaded) ==
    IF configLoaded THEN HandleStyleUpdate(w, DefaultStyles) ELSE w

\* The render context after its `load` handler ran
Loaded(configLoaded) ==
    ApplyDefaultStyles(
        [state |-> [originalBody |-> Skeleton,
                    originalHead |-> PlainHead,
                    isRendering |-> FALSE,
                    pendingRenderRequest |-> NoRequest,
                    handshakeInterval |-> TRUE,
                    isHandshakeComplete |-> FALSE,
                    currentStyles |-> NoStyles,
                    contentLoaded |-> FALSE],
         body |-> Skeleton,
         head |-> PlainHead,
         rootStyle |-> NoStyles,
         bodyClass |-> {},
         inflight |-> {},
         started |-> 0,
         lastPass |-> [styles |-> NoStyles, onPaged |-> FALSE, replay |-> FALSE,
                       coalesced |-> 0],
         lastEnded |-> "none",
         lockedReqs |-> 0,
         lastLockedReq |-> NoStyles,
         settled |-> "none",
         toParent |-> <<>>],
        configLoaded)

\* Passes started plus the one a pending request stands for
Committed(w) == w.started + (IF w.state.pendingRenderRequest.set THEN 1 ELSE 0)

\* A render request is taken while the model's bounds leave room for it
RoomFor(w) ==
    /\ Committed(w) <= MaxPasses
    /\ w.lockedReqs <= MaxLockedReqs

-----------------------------------------------------------------------------
(* resume_renderer.js: handshake and message handler *)

\* A message between the two windows. `seq` numbers the commands in the order
\* in which they were handed to sendMessageToIframe (0 for ACK).
Msg(type, styles, content, seq) ==
    [type |-> type, styles |-> styles, content |-> content, seq |-> seq]

Ack == Msg("ACK", NoStyles, 0, 0)

\* (mutant: the interval is left running when ACK arrives)
OnAck_KeepInterval(w) ==
    [w EXCEPT !.state.isHandshakeComplete = TRUE]

\* message 'ACK': clear the READY interval, the handshake is complete
OnAck(w) ==
    [w EXCEPT !.state.handshakeInterval = FALSE,
              !.state.isHandshakeComplete = TRUE]

\* The `message` listener of the render context
OnMessage(w, m) ==
    CASE m.type = "ACK" -> OnAck(w)
      [] m.type = "updateContent" -> HandleContentUpdate(w, m.content)
      [] m.type \in {"updateCSS", "updatePageMargin"} -> HandleStyleUpdate(w, m.styles)
      [] m.type = "TRIGGER_PAGED" -> HandlePagedRender(w, m.styles, FALSE)
      [] OTHER -> w

-----------------------------------------------------------------------------
(* controller.js: ResumeController *)

\* The controller as constructed
Constructed ==
    [isInitialized |-> FALSE,     \* init() has set up the modules and the listener
     isIframeReady |-> FALSE,
     messageQueue |-> <<>>,
     controlsEnabled |-> TRUE,
     fetches |-> 0,               \* loadInitialContent calls awaiting their fetch
     startups |-> 0,              \* history: runs of the start-up sequence
     flushed |-> 0,               \* history: commands flushed from messageQueue
     userCmds |-> 0]              \* history: commands issued by the user

\* The host as one record
Host == [ctl |-> ctl, posted |-> posted, handed |-> handed]

SetHost(h) ==
    /\ ctl' = h.ctl
    /\ posted' = h.posted
    /\ handed' = h.handed

\* sliderConfig, in its order: the variable, whether calculateCSSValue appends
\* the unit, the message type, a second slider position, and the slider's
\* range and step (thousandths)
SliderCfg(i) ==
    CASE i = 1 -> [cssVar |-> "--body-font-size", unit |-> "pt", type |-> "updateCSS", alt |-> 9500,
                  min |-> 9000, max |-> 13000, step |-> 500]
      [] i = 2 -> [cssVar |-> "--heading-scale", unit |-> "", type |-> "updateCSS", alt |-> 1600,
                  min |-> 1000, max |-> 1700, step |-> 100]
      [] i = 3 -> [cssVar |-> "--line-height", unit |-> "", type |-> "updateCSS", alt |-> 1500,
                  min |-> 1000, max |-> 1700, step |-> 50]
      [] i = 4 -> [cssVar |-> "--page-margin", unit |-> "mm", type |-> "updatePageMargin", alt |-> 8000,
                  min |-> 7000, max |-> 21000, step |-> 1000]
      [] i = 5 -> [cssVar |-> "--title-hr-margin", unit |-> "", type |-> "updateCSS", alt |-> 100,
                  min |-> 0, max |-> 700, step |-> 100]
      [] i = 6 -> [cssVar |-> "--body-margin", unit |-> "", type |-> "updateCSS", alt |-> 400,
                  min |-> 0, max |-> 500, step |-> 100]
      [] i = 7 -> [cssVar |-> "--ul-margin", unit |-> "", type |-> "updateCSS", alt |-> 100,
                  min |-> 0, max |-> 500, step |-> 100]
      [] OTHER -> [cssVar |-> "--strong-paragraph-margin", unit |-> "", type |-> "updateCSS", alt |-> 100,
                  min |-> 0, max |-> 200, step |-> 100]

\* The sliders the modelled host page carries, by their position in
\* sliderConfig and in that order
Sliders == <<1>>

\* calculateCSSValue: the slider value with the unit when it is a CSS unit
SliderStyles(i, n) ==
    [NoStyles EXCEPT ![SliderCfg(i).cssVar] = Css(n, SliderCfg(i).unit)]

\* (mutant: the command is posted whether or not the iframe is ready)
SendMessageToIframe_AlwaysPost(h, type, styles, content) ==
    LET data == Msg(type, styles, content, Len(h.handed) + 1)
    IN [h EXCEPT !.posted = Append(@, data),
                 !.handed = Append(@, data)]

\* sendMessageToIframe(data): post when the iframe is ready, queue otherwise
SendMessageToIframe(h, type, styles, content) ==
    LET data == Msg(type, styles, content, Len(h.handed) + 1)
    IN IF h.ctl.isIframeReady
       THEN [h EXCEPT !.posted = Append(@, data),
                      !.handed = Append(@, data)]
       ELSE [h EXCEPT !.ctl.messageQueue = Append(@, data),
                      !.handed = Append(@, data)]

\* handleSliderChange(cfg, value): the page margin slider sends its special
\* message and then the general one, every other slider one updateCSS
HandleSliderChange(h, i, n) ==
    LET h1 == IF SliderCfg(i).type = "updatePageMargin"
              THEN SendMessageToIframe(h, "updatePageMargin", SliderStyles(i, n), 0)
              ELSE h
    IN SendMessageToIframe(h1, SliderCfg(i).type, SliderStyles(i, n), 0)

\* The slider's position when nothing was stored: the default style value
SliderDefault(i) == DefaultStyles[SliderCfg(i).cssVar].n

\* loadDefaultValues() / triggerAllSliders(): handleSliderChange for every
\* slider, in the order of sliderConfig
RECURSIVE AllSliders(_, _)
AllSliders(h, k) ==
    IF k > Len(Sliders) THEN h
    ELSE AllSliders(HandleSliderChange(h, Sliders[k], SliderDefault(Sliders[k])), k + 1)

\* (mutant: the queue is emptied from its end)
RECURSIVE FlushQueue_Lifo(_)
FlushQueue_Lifo(h) ==
    IF h.ctl.messageQueue = <<>> THEN h
    ELSE LET q == h.ctl.messageQueue
         IN FlushQueue_Lifo([h EXCEPT !.posted = Append(@, q[Len(q)]),
                                      !.ctl.messageQueue = SubSeq(q, 1, Len(q) - 1)])

\* `while (this.messageQueue.length > 0) post(this.messageQueue.shift())`
RECURSIVE FlushQueue(_)
FlushQueue(h) ==
    IF h.ctl.messageQueue = <<>> THEN h
    ELSE FlushQueue([h EXCEPT !.posted = Append(@, Head(h.ctl.messageQueue)),
                              !.ctl.messageQueue = Tail(@)])

\* (mutant: READY is not acknowledged)
HandleViewerReady_NoAck(h) ==
    LET h1 == [h EXCEPT !.ctl.isIframeReady = TRUE,
                        !.ctl.flushed = @ + Len(h.ctl.messageQueue)]
        h2 == AllSliders(FlushQueue(h1), 1)
    IN [h2 EXCEPT !.ctl.fetches = @ + 1,
                  !.ctl.startups = @ + 1]

\* handleViewerReady(): mark ready, acknowledge, flush, send the initial
\* styles, start loading the initial content
HandleViewerReady(h) ==
    LET h1 == [h EXCEPT !.ctl.isIframeReady = TRUE,
                        !.posted = Append(@, Ack),
                        !.ctl.flushed = @ + Len(h.ctl.messageQueue)]
        h2 == AllSliders(FlushQueue(h1), 1)
    IN [h2 EXCEPT !.ctl.fetches = @ + 1,
                  !.ctl.startups = @ + 1]

\* setControlsEnabled(enabled)
SetControlsEnabled(h, enabled) == [h EXCEPT !.ctl.controlsEnabled = enabled]

\* handleMessage(event): the switch on data.type
HandleMessage(h, type) ==
    CASE type = "READY" -> HandleViewerReady(h)
      [] type = "rendering" -> SetControlsEnabled(h, FALSE)
      [] type = "rendered" -> SetControlsEnabled(h, TRUE)
      [] OTHER -> h

\* init(): build the modules, load the slider defaults (each sends its
\* style), register the message listener
HostInit ==
    /\ ~ctl.isInitialized
    /\ SetHost(AllSliders([Host EXCEPT !.ctl.isInitialized = TRUE], 1))
    /\ UNCHANGED <<renderVars, linkVars, parentRead, restVars>>

\* The next message of the render context reaches the host window: its
\* listener runs handleMessage, or nothing listens yet
HostRecv ==
    /\ parentRead < Len(toParent)
    /\ parentRead' = parentRead + 1
    /\ IF ctl.isInitialized
       THEN SetHost(HandleMessage(Host, toParent[parentRead + 1]))
       ELSE UNCHANGED <<ctl, posted, handed>>
    /\ UNCHANGED <<renderVars, linkVars, restVars>>

\* What loadInitialContent ends up sending
InitialContents == {1}

\* The fetch of loadInitialContent settles: the text of the resume, or the
\* error notice when it failed, goes out through updateContent
HostFetchDone(c) ==
    /\ ctl.fetches > 0
    /\ SetHost(SendMessageToIframe([Host EXCEPT !.ctl.fetches = @ - 1],
                                   "updateContent", NoStyles, c))
    /\ UNCHANGED <<renderVars, linkVars, parentRead, restVars>>

\* The user can act on the controls once init() has run and while they are
\* not disabled
UserCan ==
    /\ ctl.isInitialized
    /\ ctl.controlsEnabled
    /\ ticks + ctl.userCmds < MaxEvents

\* The user moves slider i (`input` event)
UserSlider(i) ==
    /\ UserCan
    /\ SetHost(HandleSliderChange([Host EXCEPT !.ctl.userCmds = @ + 1],
                                  i, SliderCfg(i).alt))
    /\ UNCHANGED <<renderVars, linkVars, parentRead, restVars>>

\* The user releases slider i (`change` event): handleSliderFinalChange
UserRelease(i) ==
    /\ UserCan
    /\ SetHost(SendMessageToIframe([Host EXCEPT !.ctl.userCmds = @ + 1],
                                   "TRIGGER_PAGED", SliderStyles(i, SliderCfg(i).alt), 0))
    /\ UNCHANGED <<renderVars, linkVars, parentRead, restVars>>

\* The user clicks the print button
UserPrint ==
    /\ UserCan
    /\ SetHost(SendMessageToIframe([Host EXCEPT !.ctl.userCmds = @ + 1],
                                   "print", NoStyles, 0))
    /\ UNCHANGED <<renderVars, linkVars, parentRead, restVars>>

\* The handshake interval fires: READY goes to the parent window
RenderTick ==
    /\ state.handshakeInterval
    /\ ticks + ctl.userCmds < MaxEvents
    /\ ticks' = ticks + 1
    /\ readySent' = readySent + 1
    /\ SetRC([RC EXCEPT !.toParent = Append(@, "READY")])
    /\ UNCHANGED <<hostVars, delivered, restVars>>

\* The next message of the host reaches the render context
RenderRecv ==
    /\ delivered < Len(posted)
    /\ RoomFor(OnMessage(RC, posted[delivered + 1]))
    /\ delivered' = delivered + 1
    /\ SetRC(OnMessage(RC, posted[delivered + 1]))
    /\ UNCHANGED <<hostVars, ticks, readySent, restVars>>

-----------------------------------------------------------------------------
(* resume_renderer.js: window.simpleViewer.fitToOnePage *)

\* `const maxIterations = 25`
MaxIterations == 25

Max(a, b) == IF a > b THEN a ELSE b
Min(a, b) == IF a < b THEN a ELSE b

\* Math.round(newVal * 100) / 100 on a value in thousandths
Round2(v) == ((v + 5) \div 10) * 10

\* shrinkStrategies, in order, with the fallback step and limit of each
ShrinkStrategies ==
    << [slider |-> 4, unit |-> "mm", step |-> 1000, limit |-> 7000],
       [slider |-> 6, unit |-> "em", step |-> 100, limit |-> 0],
       [slider |-> 7, unit |-> "em", step |-> 100, limit |-> 0],
       [slider |-> 2, unit |-> "", step |-> 100, limit |-> 1000],
       [slider |-> 3, unit |-> "", step |-> 50, limit |-> 1000],
       [slider |-> 1, unit |-> "pt", step |-> 500, limit |-> 9000] >>

\* expandStrategies, in order, with the fallback step and limit of each
ExpandStrategies ==
    << [slider |-> 1, unit |-> "pt", step |-> 500, limit |-> 12000],
       [slider |-> 3, unit |-> "", step |-> 50, limit |-> 1600],
       [slider |-> 2, unit |-> "", step |-> 100, limit |-> 1700],
       [slider |-> 6, unit |-> "em", step |-> 100, limit |-> 500],
       [slider |-> 7, unit |-> "em", step |-> 100, limit |-> 500],
       [slider |-> 4, unit |-> "mm", step |-> 1000, limit |-> 15000] >>

\* getStep(id, fallback): the slider's step when ResumeConfig is there
GetStep(config, strat) ==
    IF config THEN SliderCfg(strat.slider).step ELSE strat.step

\* getLimit(id, isMax, fallback): the slider's min or max when ResumeConfig
\* is there
GetLimit(config, strat, isMax) ==
    IF config
    THEN (IF isMax THEN SliderCfg(strat.slider).max ELSE SliderCfg(strat.slider).min)
    ELSE strat.limit

\* window.simpleViewer before fitToOnePage is called; `config` tells whether
\* window.ResumeConfig is there
NotFitting(config) ==
    [config |-> config,
     isAutoFitting |-> FALSE,
     at |-> "idle",               \* where fitToOnePage is suspended
     awaiting |-> 0,              \* the pass its `await` waits for
     direction |-> "none",
     iteration |-> 0,
     lastAdjusted |-> [slider |-> 0, unit |-> "", prevVal |-> 0],
     rolledBack |-> FALSE,        \* history: the rollback branch was taken
     start |-> [pages |-> 0, sparse |-> FALSE, midPass |-> FALSE,
                allAbove |-> FALSE, styles |-> NoStyles],
                                  \* history: what the run found when it began
     sawFailure |-> FALSE,        \* history: a pass the run awaited was rejected
     beforeStep |-> NoStyles,     \* history: the styles before the last expand step
     corrective |-> 0,            \* history: renders asked for by the rollback
     renders |-> 0,               \* history: passes the run began
     readMidPass |-> FALSE,       \* history: a page count was read, after an
                                  \* adjustment, while a pass was in flight
     result |-> [attempted |-> FALSE, direction |-> "none", success |-> FALSE,
                 iterations |-> 0, pageCount |-> 0, sparse |-> FALSE]]

\* What a query of the document finds: the output of the last pass, or, while
\* a pass is rebuilding the document, whatever it has produced so far
Seen(w, view) == IF w.inflight # {} THEN view ELSE [pages |-> w.body.pages, sparse |-> w.body.sparse]

\* getPageCount()
GetPageCount(w, view) == Seen(w, view).pages

\* checkContentFill().isSparse: sparse needs a page to measure
CheckContentFill(w, view) == Seen(w, view).pages > 0 /\ Seen(w, view).sparse

\* (mutant: the step is taken without the clamp to the minimum)
ShrinkTo_NoClamp(val, step, min) == Round2(val - step)

\* (mutant: the step leaves the value where it is)
ShrinkTo_Stuck(val, step, min) == val

\* `Math.round(Math.max(strat.min, val - strat.step) * 100) / 100`
ShrinkTo(val, step, min) == Round2(Max(min, val - step))

\* (mutant: the expand step moves the value down)
ExpandTo_Down(val, step, max) == Round2(Max(0, val - step))

\* `Math.round(Math.min(strat.max, val + strat.step) * 100) / 100`
ExpandTo(val, step, max) == Round2(Min(max, val + step))

\* parseFloat of the computed value is a number (not NaN) and the strategy
\* still has room: `val > strat.min + 0.001`
CanShrink(w, config, strat) ==
    LET v == ComputedStyle(w, SliderCfg(strat.slider).cssVar)
    IN v # Unset /\ v.n > GetLimit(config, strat, FALSE) + 1

\* `val < strat.max - 0.001`
CanExpand(w, config, strat) ==
    LET v == ComputedStyle(w, SliderCfg(strat.slider).cssVar)
    IN v # Unset /\ v.n < GetLimit(config, strat, TRUE) - 1

\* The first strategy of the list that can still move (0 when none can)
FirstShrink(w, config) ==
    IF \E k \in 1..Len(ShrinkStrategies) : CanShrink(w, config, ShrinkStrategies[k])
    THEN CHOOSE k \in 1..Len(ShrinkStrategies) :
            /\ CanShrink(w, config, ShrinkStrategies[k])
            /\ \A j \in 1..(k - 1) : ~CanShrink(w, config, ShrinkStrategies[j])
    ELSE 0

FirstExpand(w, config) ==
    IF \E k \in 1..Len(ExpandStrategies) : CanExpand(w, config, ExpandStrategies[k])
    THEN CHOOSE k \in 1..Len(ExpandStrategies) :
            /\ CanExpand(w, config, ExpandStrategies[k])
            /\ \A j \in 1..(k - 1) : ~CanExpand(w, config, ExpandStrategies[j])
    ELSE 0

\* One parameter set to a number with the strategy's unit
OneStyle(strat, n) ==
    [NoStyles EXCEPT ![SliderCfg(strat.slider).cssVar] = Css(n, strat.unit)]

\* applyShrinkStep(), when a strategy can move: one step on the first such
ApplyShrinkStep(w, config) ==
    LET strat == ShrinkStrategies[FirstShrink(w, config)]
        val == ComputedStyle(w, SliderCfg(strat.slider).cssVar).n
    IN HandleStyleUpdate(w, OneStyle(strat,
           ShrinkTo(val, GetStep(config, strat), GetLimit(config, strat, FALSE))))

\* applyExpandStep(), when a strategy can move
ApplyExpandStep(w, config) ==
    LET strat == ExpandStrategies[FirstExpand(w, config)]
        val == ComputedStyle(w, SliderCfg(strat.slider).cssVar).n
    IN HandleStyleUpdate(w, OneStyle(strat,
           ExpandTo(val, GetStep(config, strat), GetLimit(config, strat, TRUE))))

\* `{ strat, prevVal: val }`, what applyExpandStep returns
Adjusted(w, config) ==
    LET strat == ExpandStrategies[FirstExpand(w, config)]
    IN [slider |-> strat.slider, unit |-> strat.unit,
        prevVal |-> ComputedStyle(w, SliderCfg(strat.slider).cssVar).n]

\* (mutant: the end of the run puts back the styles the run began with)
FitFinish_Restore(w, f, view) ==
    [w |-> [HandleStyleUpdate(w, f.start.styles)
               EXCEPT !.bodyClass = @ \cup {"autofit-complete"}],
     f |-> [f EXCEPT !.isAutoFitting = FALSE,
                     !.at = "done",
                     !.awaiting = 0,
                     !.result = [attempted |-> TRUE,
                                 direction |-> f.direction,
                                 success |-> GetPageCount(w, view) = 1,
                                 iterations |-> f.iteration,
                                 pageCount |-> GetPageCount(w, view),
                                 sparse |-> CheckContentFill(w, view)]]]

\* The end of fitToOnePage: window.autoFitResult, the flag, the body class
FitFinish(w, f, view) ==
    [w |-> [w EXCEPT !.bodyClass = @ \cup {"autofit-complete"}],
     f |-> [f EXCEPT !.isAutoFitting = FALSE,
                     !.at = "done",
                     !.awaiting = 0,
                     !.result = [attempted |-> TRUE,
                                 direction |-> f.direction,
                                 success |-> GetPageCount(w, view) = 1,
                                 iterations |-> f.iteration,
                                 pageCount |-> GetPageCount(w, view),
                                 sparse |-> CheckContentFill(w, view)]]]

\* renderAndCount() up to its await: handlePagedRender(state.currentStyles)
RenderAndCount(w) == HandlePagedRender(w, w.state.currentStyles, FALSE)

\* fitToOnePage suspended at `await renderAndCount()` on the pass just begun
FitAwait(w, f, at) ==
    [w |-> w, f |-> [f EXCEPT !.at = at, !.awaiting = w.started,
                              !.renders = @ + 1]]

\* (mutant: the loops have no ceiling)
BelowCeiling_Always(iteration) == TRUE

\* `iteration < maxIterations`
BelowCeiling(iteration) == iteration < MaxIterations

\* The shrink loop from its head. handlePagedRender returns at once when the
\* lock is held, and the loop then goes on in the same turn.
RECURSIVE ShrinkLoop(_, _, _, _)
ShrinkLoop(w, f, pageCount, view) ==
    IF pageCount > 1 /\ BelowCeiling(f.iteration) /\ FirstShrink(w, f.config) # 0
    THEN LET r == RenderAndCount(ApplyShrinkStep(w, f.config))
         IN IF r.started > w.started
            THEN FitAwait(r, f, "shrink")
            ELSE ShrinkLoop(r, [f EXCEPT !.iteration = @ + 1,
                                         !.readMidPass = @ \/ r.inflight # {}],
                            GetPageCount(r, view), view)
    ELSE FitFinish(w, f, view)

\* The rollback of the expand loop: the previous value, one more render
Rollback(w, f, view) ==
    LET back == HandleStyleUpdate(w,
                    [NoStyles EXCEPT ![SliderCfg(f.lastAdjusted.slider).cssVar] =
                        Css(f.lastAdjusted.prevVal, f.lastAdjusted.unit)])
        r == RenderAndCount(back)
        g == [f EXCEPT !.rolledBack = TRUE, !.corrective = @ + 1]
    IN IF r.started > w.started
       THEN FitAwait(r, g, "rollback")
       ELSE FitFinish(r, [g EXCEPT !.readMidPass = @ \/ r.inflight # {}], view)

\* The expand loop from its head
RECURSIVE ExpandLoop(_, _, _, _)
ExpandLoop(w, f, pageCount, view) ==
    IF /\ pageCount = 1
       /\ BelowCeiling(f.iteration)
       /\ CheckContentFill(w, view)
       /\ FirstExpand(w, f.config) # 0
    THEN LET g == [f EXCEPT !.lastAdjusted = Adjusted(w, f.config),
                            !.beforeStep = w.rootStyle]
             r == RenderAndCount(ApplyExpandStep(w, f.config))
         IN IF r.started > w.started
            THEN FitAwait(r, g, "expand")
            ELSE LET h == [g EXCEPT !.readMidPass = @ \/ r.inflight # {}]
                 IN IF GetPageCount(r, view) > 1
                    THEN Rollback(r, h, view)
                    ELSE ExpandLoop(r, [h EXCEPT !.iteration = @ + 1],
                                    GetPageCount(r, view), view)
    ELSE FitFinish(w, f, view)

\* Every shrink strategy can still move
AllAbove(w, config) ==
    \A k \in 1..Len(ShrinkStrategies) : CanShrink(w, config, ShrinkStrategies[k])

\* (mutant: a single page is expanded whether it is sparse or not)
Direction_Eager(pageCount, isSparse) ==
    IF pageCount > 1 THEN "shrink"
    ELSE IF pageCount = 1 THEN "expand"
    ELSE "none"

\* `if (pageCount > 1) direction = 'shrink'; else if (pageCount === 1 &&
\* fillInfo.isSparse) direction = 'expand'`, from 'none'
Direction(pageCount, isSparse) ==
    IF pageCount > 1 THEN "shrink"
    ELSE IF pageCount = 1 /\ isSparse THEN "expand"
    ELSE "none"

\* fitToOnePage() up to its first await
FitToOnePage(w, f, view) ==
    LET pageCount == GetPageCount(w, view)
        direction == Direction(pageCount, CheckContentFill(w, view))
        g == [f EXCEPT !.isAutoFitting = TRUE, !.direction = direction,
                       !.iteration = 0, !.rolledBack = FALSE,
                       !.readMidPass = FALSE, !.renders = 0,
                       !.start = [pages |-> pageCount,
                                  sparse |-> CheckContentFill(w, view),
                                  midPass |-> w.inflight # {},
                                  allAbove |-> AllAbove(w, f.config),
                                  styles |-> w.rootStyle]]
    IN IF direction = "shrink" THEN ShrinkLoop(w, g, pageCount, view)
       ELSE IF direction = "expand" THEN ExpandLoop(w, g, pageCount, view)
       ELSE FitFinish(w, g, view)

\* fitToOnePage resumed after the pass it awaited
FitResume(w, f0, view) ==
    LET pageCount == GetPageCount(w, view)
        f == [f0 EXCEPT !.sawFailure = @ \/ w.lastEnded = "failed",
                        !.readMidPass = @ \/ w.inflight # {}]
    IN IF f.at = "shrink"
       THEN ShrinkLoop(w, [f EXCEPT !.iteration = @ + 1], pageCount, view)
       ELSE IF f.at = "expand"
       THEN (IF pageCount > 1
             THEN Rollback(w, f, view)
             ELSE ExpandLoop(w, [f EXCEPT !.iteration = @ + 1], pageCount, view))
       ELSE FitFinish(w, f, view)

-----------------------------------------------------------------------------
(* controller.js: ResumeStateManager; config.example.js: the Paged.js
   middleware and RenderTaskProcessor *)

\* The dedup window of the middleware and the debounce of the processor, ms
DedupWindow == 1000
DebounceDelay == 300

\* `if (this.history.length > 50) this.history.shift()`
MaxHistory == 50

\* getRenderPriority(actionType)
GetRenderPriority(actionType) ==
    CASE actionType = "SET_CONTENT" -> 1
      [] actionType = "UPDATE_STYLES" -> 2
      [] actionType = "UI_STATE_CHANGE" -> 3
      [] OTHER -> 5

\* A render task: reason, creation time, priority (the random id and the
\* payload copy are left out)
RenderTask(reason, timestamp) ==
    [reason |-> reason, timestamp |-> timestamp, priority |-> GetRenderPriority(reason)]

NoTask == [reason |-> "", timestamp |-> 0, priority |-> 0]

\* A PAGEDJS_STATE_CHANGE payload: the keys it carries and their values
NoPatch ==
    [keys |-> {}, isRendering |-> FALSE, renderQueue |-> <<>>, error |-> "null",
     lastRenderTime |-> 0, addRenderTask |-> NoTask]

\* An action: type, payload (a content or style revision, or a pagedjs
\* patch), and the meta that the middleware adds
StoreAction(type, rev, patch) ==
    [type |-> type, rev |-> rev, patch |-> patch,
     triggersRender |-> FALSE, renderTask |-> NoTask]

\* The store as constructed, with the middleware and the processor attached
StoreConstructed ==
    [content |-> [html |-> 0, lastModified |-> 0],
     styles |-> 0,
     pagedjs |-> [isRendering |-> FALSE, lastRenderTime |-> 0, renderQueue |-> <<>>,
                  error |-> "null", addRenderTask |-> NoTask],
     history |-> 0]

\* The processor as constructed
ProcessorConstructed ==
    [isProcessing |-> FALSE,
     processingTimeout |-> [armed |-> FALSE, due |-> 0]]

NoAudit ==
    [dispatched |-> 0,    \* dispatches made from outside
     recorded |-> 0,      \* SET_CONTENT / UPDATE_STYLES recorded by the store
     covered |-> 0,       \* `recorded` when the last pass started
     inFlight |-> 0,      \* passes of the processor executing
     calls |-> 0,         \* processQueue calls since the timeout was last set
     begun |-> 0,         \* passes begun since the timeout was last set
     task |-> NoTask]     \* the task handed to executeRenderTask last

\* The store and the processor as one record
Q == [store |-> store, proc |-> proc, audit |-> audit]

SetQ(q) ==
    /\ store' = q.store
    /\ proc' = q.proc
    /\ audit' = q.audit

\* `currentQueue.some(task => task.reason === action.type &&
\*   Date.now() - new Date(task.timestamp).getTime() < 1000)`
HasSimilarTask(queue, reason, t) ==
    \E k \in 1..Len(queue) :
        queue[k].reason = reason /\ t - queue[k].timestamp < DedupWindow

\* pagedJsMiddleware(action, state); `created` is what `new Date()` read for
\* the task and t what `Date.now()` read for the dedup test
PagedJsMiddleware(action, oldState, created, t) ==
    IF /\ action.type \in {"SET_CONTENT", "UPDATE_STYLES"}
       /\ ~HasSimilarTask(oldState.pagedjs.renderQueue, action.type, t)
    THEN [action EXCEPT !.triggersRender = TRUE,
                        !.renderTask = RenderTask(action.type, created)]
    ELSE IF action.type = "PAGEDJS_STATE_CHANGE" /\ "addRenderTask" \in action.patch.keys
    THEN [action EXCEPT !.triggersRender = TRUE,
                        !.renderTask = action.patch.addRenderTask]
    ELSE action

\* reducer(state, action), for the action types of this pipeline
Reducer(st, action, t) ==
    CASE action.type = "SET_CONTENT" ->
            [st EXCEPT !.content = [html |-> action.rev, lastModified |-> t]]
      [] action.type = "UPDATE_STYLES" ->
            [st EXCEPT !.styles = action.rev]
      [] action.type = "PAGEDJS_STATE_CHANGE" ->
            [st EXCEPT !.pagedjs =
                [f \in DOMAIN st.pagedjs |->
                    IF f \in action.patch.keys THEN action.patch[f] ELSE st.pagedjs[f]]]
      [] OTHER -> st

\* (mutant: a timeout that is already set is left as it is)
ScheduleProcessing_Keep(q, t) ==
    IF q.proc.processingTimeout.armed THEN q
    ELSE [q EXCEPT !.proc.processingTimeout = [armed |-> TRUE, due |-> t + DebounceDelay],
                   !.audit.calls = 0,
                   !.audit.begun = 0]

\* scheduleProcessing(): clear the timeout, set a new one 300 ms from now
ScheduleProcessing(q, t) ==
    [q EXCEPT !.proc.processingTimeout = [armed |-> TRUE, due |-> t + DebounceDelay],
              !.audit.calls = 0,
              !.audit.begun = 0]

\* dispatch(action): middleware, reducer, state, history (its length, capped),
\* listeners. The listener of RenderTaskProcessor, for a tagged
\* action, dispatches the queue with the task appended (addTaskToQueue) and
\* schedules the processing.
RECURSIVE Dispatch(_, _, _, _)
Dispatch(q, action, created, t) ==
    LET processed == PagedJsMiddleware(action, q.store, created, t)
        reduced == Reducer(q.store, processed, t)
        q1 == [q EXCEPT !.store = [reduced EXCEPT !.history = Min(MaxHistory, @ + 1)]]
    IN IF processed.triggersRender
       THEN ScheduleProcessing(
                Dispatch(q1,
                         StoreAction("PAGEDJS_STATE_CHANGE", 0,
                             [NoPatch EXCEPT !.keys = {"renderQueue"},
                                             !.renderQueue =
                                                 Append(q1.store.pagedjs.renderQueue,
                                                        processed.renderTask)]),
                         t, t),
                t)
       ELSE q1

\* (mutant: the queue is not sorted)
NextTask_Unsorted(queue) == queue[1]

\* `queue.sort((a, b) => a.priority - b.priority); queue[0]`
NextTask(queue) ==
    queue[CHOOSE k \in 1..Len(queue) :
            /\ \A j \in 1..Len(queue) : queue[k].priority <= queue[j].priority
            /\ \A j \in 1..(k - 1) : queue[j].priority > queue[k].priority]

\* (mutant: processQueue() only looks at the queue)
ProcessSkips_QueueOnly(q) == q.store.pagedjs.renderQueue = <<>>

\* processQueue() finds nothing to do
ProcessSkips(q) ==
    \/ q.proc.isProcessing
    \/ q.store.pagedjs.isRendering
    \/ q.store.pagedjs.renderQueue = <<>>

\* processQueue() up to `await this.executeRenderTask(nextTask)`
ProcessQueue(q, t) ==
    IF ProcessSkips(q) THEN [q EXCEPT !.audit.calls = @ + 1]
    ELSE LET q1 == Dispatch([q EXCEPT !.proc.isProcessing = TRUE],
                            StoreAction("PAGEDJS_STATE_CHANGE", 0,
                                [NoPatch EXCEPT !.keys = {"isRendering", "error"},
                                                !.isRendering = TRUE]),
                            t, t)
         IN [q1 EXCEPT !.audit.covered = q.audit.recorded,
                       !.audit.inFlight = @ + 1,
                       !.audit.calls = @ + 1,
                       !.audit.begun = @ + 1,
                       !.audit.task = NextTask(q.store.pagedjs.renderQueue)]

\* (mutant: the catch block dispatches nothing)
AfterExecute_SilentCatch(q, ok, t) ==
    LET patch == [NoPatch EXCEPT !.keys = {"isRendering", "lastRenderTime",
                                           "renderQueue", "error"},
                                 !.lastRenderTime = t]
        q1 == IF ok THEN Dispatch(q, StoreAction("PAGEDJS_STATE_CHANGE", 0, patch), t, t)
              ELSE q
    IN [q1 EXCEPT !.proc.isProcessing = FALSE,
                  !.audit.inFlight = @ - 1]

\* processQueue() after the await: the success dispatch or the catch
\* dispatch, and `finally { this.isProcessing = false }`
AfterExecute(q, ok, t) ==
    LET patch == IF ok
                 THEN [NoPatch EXCEPT !.keys = {"isRendering", "lastRenderTime",
                                                "renderQueue", "error"},
                                      !.lastRenderTime = t]
                 ELSE [NoPatch EXCEPT !.keys = {"isRendering", "error"},
                                      !.error = "failed"]
        q1 == Dispatch(q, StoreAction("PAGEDJS_STATE_CHANGE", 0, patch), t, t)
    IN [q1 EXCEPT !.proc.isProcessing = FALSE,
                  !.audit.inFlight = @ - 1]

-----------------------------------------------------------------------------
(* controller.js: ResumeStateManager with its subscribers and callers *)

\* The callbacks registered with subscribe(), in the order in which
\* notifyListeners calls them: the keys of the Map in insertion order, the
\* callbacks of a key in subscription order
Subscribers == <<"renderQueue", "content", "styles">>

\* What a callback does when it is called: it returns, it throws, or it
\* dispatches an action of its own (as the renderQueue subscriber does)
Behaviours == {"returns", "throws", "dispatches"}

\* Object identity. The reducer makes a new object in every dispatch;
\* JSON.parse(JSON.stringify(x)) makes an object that nothing else refers to.
StateObject(n) == [of |-> "state", n |-> n]
FreshCopy == [of |-> "copy", n |-> 0]

\* A reference held outside the store: where it came from and what it is to
NoRef == [from |-> "none", obj |-> FreshCopy]
Ref(from, obj) == [from |-> from, obj |-> obj]

\* The manager as constructed. `state` is the value of this.state (the
\* revision of the content, and a mark that a caller's write leaves),
\* `object` the identity of the object this.state refers to.
ManagerConstructed ==
    [state |-> [rev |-> 0, mark |-> FALSE],
     object |-> StateObject(0),
     history |-> <<>>,
     dispatched |-> 0,      \* history: dispatch calls begun
     log |-> <<>>,          \* history: callback calls since the last outside dispatch
     unwinding |-> FALSE,   \* an exception is propagating
     returned |-> "none",   \* history: how the last outside dispatch ended
     held |-> NoRef]        \* the reference a caller or subscriber has kept

\* getState(): the value of this.state, in an object of its own
ManagerGetState(s) == s.state

\* reducer(state, action): a copy of `state` with the change of the action
ManagerReducer(st, action) ==
    IF action.type = "SET_CONTENT" THEN [st EXCEPT !.rev = action.rev] ELSE st

\* (mutant: the history is never trimmed)
HistoryPush_NoCap(history, record) == Append(history, record)

\* `this.history.push(...); if (this.history.length > 50) this.history.shift()`
HistoryPush(history, record) ==
    IF Len(Append(history, record)) > MaxHistory
    THEN Tail(Append(history, record))
    ELSE Append(history, record)

\* (mutant: no try/catch around the callback)
Propagates_NoCatch(threw) == threw

\* `try { callback(...) } catch (error) { console.error(...) }`: whether an
\* exception of the callback leaves notifyListeners
Propagates(threw) == FALSE

\* The action a subscriber dispatches from its callback
NestedAction == [type |-> "PAGEDJS_STATE_CHANGE", rev |-> 0]

RECURSIVE ManagerDispatch(_, _, _, _)
RECURSIVE CallbackRun(_, _, _, _, _)
RECURSIVE NotifyListeners(_, _, _, _, _)

\* One callback called for dispatch n: what it finds in the store, and what
\* it does. A callback dispatches only for actions from outside.
CallbackRun(s, sub, n, beh, depth) ==
    LET s1 == [s EXCEPT !.log = Append(@,
                  [sub |-> sub, n |-> n, object |-> s.object,
                   threw |-> beh[sub] = "throws",
                   recorded |-> \E i \in 1..Len(s.history) : s.history[i].n = n])]
    IN IF beh[sub] = "dispatches" /\ depth = 0
       THEN LET r == ManagerDispatch(s1, NestedAction, beh, depth + 1)
            IN [s |-> [r EXCEPT !.unwinding = FALSE], threw |-> r.unwinding]
       ELSE [s |-> s1, threw |-> beh[sub] = "throws"]

\* notifyListeners(action, oldState, newState), from the i-th callback on
NotifyListeners(s, i, n, beh, depth) ==
    IF i > Len(Subscribers)
    THEN s
    ELSE LET r == CallbackRun(s, Subscribers[i], n, beh, depth)
         IN IF Propagates(r.threw)
            THEN [r.s EXCEPT !.unwinding = TRUE]
            ELSE NotifyListeners(r.s, i + 1, n, beh, depth)

\* dispatch(action): copy the state, reduce, replace this.state, record,
\* notify. (The middleware chain is modelled with the render queue above.)
ManagerDispatch(s, action, beh, depth) ==
    LET n == s.dispatched + 1
        oldState == ManagerGetState(s)
        newState == ManagerReducer(oldState, action)
        s1 == [s EXCEPT !.dispatched = n,
                        !.state = newState,
                        !.object = StateObject(n),
                        !.history = HistoryPush(@, [n |-> n])]
    IN NotifyListeners(s1, 1, n, beh, depth)

\* What the objects handed out by dispatch number n are: `return newState`
\* and the newState argument are the object the reducer made, which
\* this.state refers to; the oldState argument is the copy getState() made
HandedOut(from, n) ==
    IF from \in {"dispatch", "newState"} THEN StateObject(n) ELSE FreshCopy

\* A write through a reference, `ref.content.markdown = ...`: it lands in the
\* object referred to
WriteThrough(s, ref) ==
    IF ref.obj = s.object THEN [s EXCEPT !.state.mark = TRUE] ELSE s

-----------------------------------------------------------------------------
(* sliderController.js: StyleController *)

\* The controller as its constructor leaves it: init() is at
\* `await this.waitForStateManager()`
StyleControllerConstructed ==
    [isStateManaged |-> FALSE,
     pendingOperations |-> <<>>,
     currentStyles |-> <<>>,   \* the operations whose value the cache holds
     requested |-> <<>>,       \* history: the operations asked for, in order
     dispatches |-> <<>>]      \* history: the SET_STYLES dispatches, in order

\* A style operation: the slider whose variable it sets, and whether
\* window.ResumeState.dispatch throws for it; id is its place among the
\* operations asked for
StyleOperation(id, slider, throws) == [id |-> id, slider |-> slider, throws |-> throws]

\* applyCSSVariable(variable, value) with the store connected: the SET_STYLES
\* dispatch, then the cache; an exception of dispatch leaves before the cache
\* is written
ApplyManaged(c, op) ==
    LET c1 == [c EXCEPT !.dispatches = Append(@, [type |-> "SET_STYLES", id |-> op.id,
                                                   cssVar |-> SliderCfg(op.slider).cssVar])]
    IN [c |-> IF op.throws THEN c1 ELSE [c1 EXCEPT !.currentStyles = Append(@, op.id)],
        threw |-> op.throws]

\* queueOperation(description, fn)
QueueOperation(c, op) == [c EXCEPT !.pendingOperations = Append(@, op)]

\* applyCSSVariable(variable, value)
ApplyCSSVariable(c, op) ==
    IF ~c.isStateManaged THEN QueueOperation(c, op) ELSE ApplyManaged(c, op).c

\* (mutant: no try/catch around the queued operation)
RECURSIVE FlushPendingOperations_NoCatch(_)
FlushPendingOperations_NoCatch(c) ==
    IF ~c.isStateManaged \/ c.pendingOperations = <<>> THEN c
    ELSE LET r == ApplyManaged([c EXCEPT !.pendingOperations = Tail(@)],
                               Head(c.pendingOperations))
         IN IF r.threw THEN r.c ELSE FlushPendingOperations_NoCatch(r.c)

\* flushPendingOperations(): `while (length > 0) { const operation =
\* this.pendingOperations.shift(); try { operation() } catch ... }`
RECURSIVE FlushPendingOperations(_)
FlushPendingOperations(c) ==
    IF ~c.isStateManaged \/ c.pendingOperations = <<>> THEN c
    ELSE FlushPendingOperations(
             ApplyManaged([c EXCEPT !.pendingOperations = Tail(@)],
                          Head(c.pendingOperations)).c)

\* init() after its await: connected, then the flush
StyleInit(c) == FlushPendingOperations([c EXCEPT !.isStateManaged = TRUE])

-----------------------------------------------------------------------------
(* The render context under an arbitrary host: SpecRender *)

\* message 'updateContent' / 'SET_CONTENT'
RecvContent(c) ==
    /\ RoomFor(HandleContentUpdate(RC, c))
    /\ SetRC(HandleContentUpdate(RC, c))
    /\ UNCHANGED <<hostVars, linkVars, restVars>>

\* message 'UPDATE_CSS_VAR' / 'updateStyles' / 'updateCSS' / 'updatePageMargin'
RecvStyles(styles) ==
    /\ SetRC(HandleStyleUpdate(RC, styles))
    /\ UNCHANGED <<hostVars, linkVars, restVars>>

\* message 'TRIGGER_PAGED' / 'renderPaged'
RecvTrigger(payload) ==
    /\ RoomFor(HandlePagedRender(RC, payload, FALSE))
    /\ SetRC(HandlePagedRender(RC, payload, FALSE))
    /\ UNCHANGED <<hostVars, linkVars, restVars>>

\* What the oracle may report: a page count, and for a single page whether
\* it is sparsely filled
OracleOutcomes ==
    {[pages |-> 1, sparse |-> sp] : sp \in BOOLEAN}
    \cup {[pages |-> n, sparse |-> FALSE] : n \in 2..MaxPages}

\* previewer.preview() resolves
OracleDone(id, pages, sparse) ==
    /\ id \in inflight
    /\ SetRC(AfterPreview(RC, id, pages, sparse))
    /\ UNCHANGED <<hostVars, linkVars, restVars>>

\* previewer.preview() rejects
OracleThrows(id) ==
    /\ id \in inflight
    /\ SetRC(AfterPreviewThrew(RC, id))
    /\ UNCHANGED <<hostVars, linkVars, restVars>>

\* No pass has ended yet
NoPassRecord == [id |-> 0, snapshot |-> NoStyles, baseline |-> <<Skeleton, PlainHead>>,
                 pages |-> 0, sparse |-> FALSE]
NoPair == [last |-> NoPassRecord, before |-> NoPassRecord,
           noiseCur |-> FALSE, noisePrev |-> FALSE]

\* Everything as it is once both pages are loaded: the render context as
\* w, the controller and the store as constructed, the clock at 0
StartsAs(w, configLoaded) ==
    /\ state = w.state
    /\ body = w.body
    /\ head = w.head
    /\ rootStyle = w.rootStyle
    /\ bodyClass = w.bodyClass
    /\ inflight = w.inflight
    /\ started = w.started
    /\ lastPass = w.lastPass
    /\ lastEnded = w.lastEnded
    /\ lockedReqs = w.lockedReqs
    /\ lastLockedReq = w.lastLockedReq
    /\ settled = w.settled
    /\ toParent = w.toParent
    /\ ticks = 0
    /\ readySent = 0
    /\ ctl = Constructed
    /\ posted = <<>>
    /\ delivered = 0
    /\ handed = <<>>
    /\ parentRead = 0
    /\ fit = NotFitting(configLoaded)
    /\ store = StoreConstructed
    /\ proc = ProcessorConstructed
    /\ now = 0
    /\ audit = NoAudit
    /\ pair = NoPair
    /\ sm = ManagerConstructed
    /\ sc = StyleControllerConstructed

InitRender == \E configLoaded \in BOOLEAN : StartsAs(Loaded(configLoaded), configLoaded)

NextRender ==
    \/ \E c \in 1..MaxContent : RecvContent(c)
    \/ \E s \in StylePayloads : RecvStyles(s)
    \/ \E p \in StylePayloads \cup {NoStyles} : RecvTrigger(p)
    \/ \E id \in 1..MaxPasses, o \in OracleOutcomes :
           OracleDone(id, o.pages, o.sparse)
    \/ \E id \in 1..MaxPasses : OracleThrows(id)

SpecRender == InitRender /\ [][NextRender]_vars

-----------------------------------------------------------------------------
(* Claims about the render pass, checked under SpecRender *)

\* C1: at most one render pass is in flight at any time, under any
\* interleaving of content, style and trigger messages and oracle completions.
C1_AtMostOnePassInFlight == Cardinality(inflight) <= 1

\* C1 witness: a pass is in flight and a request that arrived meanwhile waits
C1_Witness ==
    /\ Cardinality(inflight) = 1
    /\ state.isRendering
    /\ state.pendingRenderRequest.set

\* C2: a request that arrives while isRendering is true starts no pass; when
\* the pass in flight ends after n >= 1 such requests, exactly one further pass
\* starts, and it renders every style variable of the snapshot taken by the
\* last of the n requests with that snapshot's value; when it ends after no
\* such request, no further pass starts.
C2_PendingReplayedOnceLastWins ==
    [][ /\ lockedReqs' > lockedReqs =>
              /\ started' = started
              /\ inflight' = inflight
        /\ \A id \in inflight : id \notin inflight' =>
              IF lockedReqs >= 1
              THEN /\ started' = started + 1
                   /\ inflight' = {started'}
                   /\ lastPass'.replay
                   /\ \A k \in CssVars :
                          lastLockedReq[k] # Unset =>
                              lastPass'.styles[k] = lastLockedReq[k]
              ELSE /\ started' = started
                   /\ inflight' = {}
      ]_vars

\* C2 witness: a replay pass that stands for two or more refused requests is
\* in flight, and the last of them had changed the styles
C2_Witness ==
    /\ lastPass.replay
    /\ lastPass.coalesced >= 2
    /\ inflight = {started}
    /\ lastPass.styles["--page-margin"] = Css(8000, "mm")
    /\ lastPass.styles["--body-font-size"] = Css(9500, "pt")

\* C9: the lock is never held with no pass in flight: when a pass ends,
\* normally or because the oracle threw, isRendering is false again unless a
\* replayed pass has taken it.
C9_LockReleased == state.isRendering => inflight # {}

\* C9 witness: the oracle threw, the pass has ended and the lock is free
C9_Witness ==
    /\ lastEnded = "failed"
    /\ inflight = {}
    /\ ~state.isRendering

\* C10 (as stated): after the oracle threw, the baseline is restored, the
\* error is recorded (surfaced as an error status) and the promise of the
\* pass is rejected, so that the caller sees the exception.
C10_FailureRestoredRecordedRethrown ==
    lastEnded = "failed" =>
        /\ inflight = {} => (body = state.originalBody /\ head = state.originalHead)
        /\ \E i \in 1..Len(toParent) : toParent[i] = "error"
        /\ settled = "rejected"

-----------------------------------------------------------------------------
(* The two contexts together: SpecHandshake *)

\* previewer.preview() resolves or rejects, with the host present
PassEnds ==
    \E id \in 1..MaxPasses :
        /\ id \in inflight
        /\ \E ok \in BOOLEAN :
              SetRC(IF ok
                    THEN AfterPreview(RC, id, 1, FALSE)
                    ELSE AfterPreviewThrew(RC, id))
        /\ UNCHANGED <<hostVars, linkVars, restVars>>

InitHandshake == InitRender

NextHandshake ==
    \/ HostInit
    \/ HostRecv
    \/ \E c \in InitialContents : HostFetchDone(c)
    \/ \E k \in 1..Len(Sliders) : UserSlider(Sliders[k])
    \/ \E k \in 1..Len(Sliders) : UserRelease(Sliders[k])
    \/ UserPrint
    \/ RenderTick
    \/ RenderRecv
    \/ PassEnds

SpecHandshake == InitHandshake /\ [][NextHandshake]_vars

\* C3: the handshake interval posts READY on every firing from load until the
\* render context handles ACK (the interval stays armed until then), and once
\* ACK has been handled no further READY is posted.
C3_ReadyUntilAck ==
    [][ /\ (ticks' = ticks + 1 => readySent' = readySent + 1)
        /\ (~state.isHandshakeComplete => state.handshakeInterval)
        /\ (state.isHandshakeComplete =>
               /\ readySent' = readySent
               /\ toParent' # Append(toParent, "READY")) ]_vars

\* ACK was handled after two READY, and the interval has not fired since
\* although the model would let it
C3_Witness ==
    /\ state.isHandshakeComplete
    /\ readySent = 2
    /\ ticks + ctl.userCmds < MaxEvents

\* The commands among the messages posted to the iframe
PostedCommands == SelectSeq(posted, LAMBDA m : m.type # "ACK")

\* C4: every command handed to sendMessageToIframe is either posted or still
\* queued, exactly once and in the order it was handed in; nothing is posted
\* ahead of the first ACK; once the iframe is ready the queue is empty, so
\* the commands queued before READY precede every later command.
C4_QueuedFlushedInOrder ==
    /\ PostedCommands \o ctl.messageQueue = handed
    /\ (posted # <<>> => posted[1] = Ack)
    /\ (ctl.isIframeReady => ctl.messageQueue = <<>>)

\* Commands queued before READY were flushed, and a later command followed
C4_Witness ==
    /\ ctl.isIframeReady
    /\ ctl.flushed >= 2
    /\ ctl.userCmds >= 1
    /\ \E k \in 1..Len(posted) :
          /\ posted[k].type = "TRIGGER_PAGED"
          /\ posted[k].seq > ctl.flushed

\* C5: while isIframeReady is false nothing has been posted to the iframe and
\* messageQueue holds every command handed to sendMessageToIframe.
C5_NothingPostedBeforeReady ==
    ~ctl.isIframeReady =>
        /\ posted = <<>>
        /\ ctl.messageQueue = handed

\* Not ready yet, with the slider's default and a user command queued while
\* READY is already on its way
C5_Witness ==
    /\ ~ctl.isIframeReady
    /\ Len(ctl.messageQueue) >= 2
    /\ ctl.userCmds >= 1
    /\ readySent >= 1

-----------------------------------------------------------------------------
(* The auto-fit engine over the render pipeline: SpecFit *)

\* The styles in force when the fit is asked for: the defaults, every
\* parameter at its lower or upper slider limit, every parameter a fraction of
\* a step inside a limit, or one parameter only
SliderOf(cssVar) == SliderCfg(CHOOSE i \in 1..8 : SliderCfg(i).cssVar = cssVar)

StartStyles ==
    { DefaultStyles,
      [k \in CssVars |-> Css(SliderOf(k).min, SliderOf(k).unit)],
      [k \in CssVars |-> Css(SliderOf(k).max, SliderOf(k).unit)],
      [k \in CssVars |-> Css(SliderOf(k).min + (2 * SliderOf(k).step) \div 5, SliderOf(k).unit)],
      [k \in CssVars |-> Css(SliderOf(k).max - (2 * SliderOf(k).step) \div 5, SliderOf(k).unit)],
      [NoStyles EXCEPT !["--page-margin"] = Css(9000, "mm")],
      SliderStyles(6, 300) }

\* What the document can show while a pass is rebuilding it
Views == [pages : 0..MaxPages, sparse : BOOLEAN]

\* Right after a pass ended and the document was put back or rendered, a
\* query sees the document itself; if the `finally` block began the replay,
\* it sees the markup that was just restored
Restored == [pages |-> 0, sparse |-> FALSE]

SetFit(r) ==
    /\ SetRC(r.w)
    /\ fit' = r.f

\* The content arrives and its pass begins
FitRecvContent ==
    /\ ~state.contentLoaded
    /\ SetRC(HandleContentUpdate(RC, 1))
    /\ UNCHANGED <<hostVars, linkVars, restVars>>

\* window.simpleViewer.fitToOnePage() is called
FitStart(view) ==
    /\ fit.at = "idle"
    /\ SetFit(FitToOnePage(RC, fit, view))
    /\ UNCHANGED <<hostVars, linkVars, queueVars, pair, sm, sc>>

\* A pass ends: handlePagedRender runs to its end, and fitToOnePage goes on
\* in the same turn when it was waiting for this pass
FitPassEnds(id, pages, sparse) ==
    /\ id \in inflight
    /\ LET w == IF pages = 0 THEN AfterPreviewThrew(RC, id)
                ELSE AfterPreview(RC, id, pages, sparse)
       IN IF fit.awaiting = id
          THEN SetFit(FitResume(w, fit, Restored))
          ELSE SetRC(w) /\ UNCHANGED fit
    /\ UNCHANGED <<hostVars, linkVars, queueVars, pair, sm, sc>>

InitFit ==
    \E configLoaded \in BOOLEAN, styles \in StartStyles :
        StartsAs(HandleStyleUpdate(Loaded(configLoaded), styles), configLoaded)

NextFit ==
    \/ FitRecvContent
    \/ \E view \in Views : FitStart(view)
    \/ \E id \in inflight, pages \in 0..MaxPages, sparse \in BOOLEAN :
          FitPassEnds(id, pages, sparse)

SpecFit == InitFit /\ [][NextFit]_vars

\* The range the engine uses for the parameter of slider i
FitMin(i) ==
    GetLimit(fit.config, ShrinkStrategies[CHOOSE k \in 1..6 : ShrinkStrategies[k].slider = i], FALSE)

FitMax(i) ==
    GetLimit(fit.config, ExpandStrategies[CHOOSE k \in 1..6 : ExpandStrategies[k].slider = i], TRUE)

FitParams == {ShrinkStrategies[k].slider : k \in 1..Len(ShrinkStrategies)}

InFitRange(i, styles) ==
    /\ styles[SliderCfg(i).cssVar] # Unset
    /\ styles[SliderCfg(i).cssVar].n >= FitMin(i)
    /\ styles[SliderCfg(i).cssVar].n <= FitMax(i)

-----------------------------------------------------------------------------
(* The store, the middleware and the task processor: SpecQueue *)

\* The clock advances in steps of this many ms
ClockStep == 100

\* The clock may turn to the next ms between `new Date()` for the task and
\* `Date.now()` for the dedup test
Skews == {0, 1}

TriggerTypes == {"SET_CONTENT", "UPDATE_STYLES"}

\* The reasons a task requested directly may carry
TaskReasons == TriggerTypes \cup {"UI_STATE_CHANGE"}

\* dispatch({ type: 'SET_CONTENT' | 'UPDATE_STYLES', payload }) from outside
DispatchChange(type, skew) ==
    /\ audit.dispatched < MaxDispatches
    /\ skew <= now
    /\ SetQ(Dispatch([Q EXCEPT !.audit.dispatched = @ + 1, !.audit.recorded = @ + 1],
                     StoreAction(type, audit.dispatched + 1, NoPatch),
                     now - skew, now))
    /\ UNCHANGED <<renderVars, hostVars, linkVars, fit, now, pair, sm, sc>>

\* dispatch({ type: 'PAGEDJS_STATE_CHANGE', payload: { addRenderTask } }) from
\* outside: the direct render task request the middleware provides for
DispatchRenderTask(reason) ==
    /\ audit.dispatched < MaxDispatches
    /\ SetQ(Dispatch([Q EXCEPT !.audit.dispatched = @ + 1],
                     StoreAction("PAGEDJS_STATE_CHANGE", 0,
                         [NoPatch EXCEPT !.keys = {"addRenderTask"},
                                         !.addRenderTask = RenderTask(reason, now)]),
                     now, now))
    /\ UNCHANGED <<renderVars, hostVars, linkVars, fit, now, pair, sm, sc>>

\* The debounce timeout fires: processQueue()
TimerFires ==
    /\ proc.processingTimeout.armed
    /\ now >= proc.processingTimeout.due
    /\ SetQ(ProcessQueue([Q EXCEPT !.proc.processingTimeout = [armed |-> FALSE, due |-> 0]], now))
    /\ UNCHANGED <<renderVars, hostVars, linkVars, fit, now, pair, sm, sc>>

\* executeRenderTask settles: resolved, or rejected
ExecuteEnds(ok) ==
    /\ proc.isProcessing
    /\ SetQ(AfterExecute(Q, ok, now))
    /\ UNCHANGED <<renderVars, hostVars, linkVars, fit, now, pair, sm, sc>>

\* Time passes, up to the moment the timeout is due when that comes first
Advance ==
    /\ now + ClockStep <= MaxTime
    /\ proc.processingTimeout.armed => now < proc.processingTimeout.due
    /\ now' = IF proc.processingTimeout.armed
              THEN Min(now + ClockStep, proc.processingTimeout.due)
              ELSE now + ClockStep
    /\ UNCHANGED <<renderVars, hostVars, linkVars, fit, store, proc, audit, pair, sm, sc>>

InitQueue == StartsAs(Loaded(TRUE), TRUE)

NextQueue ==
    \/ \E type \in TriggerTypes, skew \in Skews : DispatchChange(type, skew)
    \/ \E reason \in TaskReasons : DispatchRenderTask(reason)
    \/ TimerFires
    \/ \E ok \in BOOLEAN : ExecuteEnds(ok)
    \/ Advance

SpecQueue == InitQueue /\ [][NextQueue]_vars

\* C7: pagedjs.renderQueue never holds two tasks with the same reason whose
\* creation times are less than 1000 ms apart (so repeated UPDATE_STYLES
\* dispatches within 500 ms leave one UPDATE_STYLES task).
C7_NoTwoSameReasonWithinWindow ==
    LET queue == store.pagedjs.renderQueue
    IN \A j, k \in 1..Len(queue) :
          (j < k /\ queue[j].reason = queue[k].reason) =>
              queue[k].timestamp - queue[j].timestamp >= DedupWindow

\* C8: passes of the processor never overlap, and no recorded SET_CONTENT or
\* UPDATE_STYLES is left without a pass that started after it: when no
\* timeout is armed and no pass is executing (nothing will start a pass any
\* more), the last pass started after the last recorded change.
C8_EveryChangeGetsAPass ==
    /\ audit.inFlight <= 1
    /\ (~proc.processingTimeout.armed /\ ~proc.isProcessing) =>
           audit.covered = audit.recorded

-----------------------------------------------------------------------------
(* The auto-fit engine with a deterministic oracle: SpecFitDet *)

\* How far the styles are above the smallest document, in slider steps: the
\* height of the laid-out content grows with it
Bulk(styles) ==
    LET steps(i) == IF styles[SliderCfg(i).cssVar] = Unset THEN 0
                    ELSE Max(0, (styles[SliderCfg(i).cssVar].n - SliderCfg(i).min
                                 + SliderCfg(i).step - 1) \div SliderCfg(i).step)
    IN steps(1) + steps(2) + steps(3) + steps(4) + steps(6) + steps(7)

\* The bulk up to which content c fits on one page
Room(c) == CASE c = 1 -> 50 [] c = 2 -> 3 [] OTHER -> 30

\* The bulk below which content c, on one page, fills less than 85 % of it
SparseBelow(c) == CASE c = 1 -> 40 [] c = 2 -> 4 [] OTHER -> 20

\* previewer.preview() as a function of the document it is given
Layout(c, styles) ==
    [pages |-> IF Bulk(styles) > Room(c) THEN 2 ELSE 1,
     sparse |-> Bulk(styles) <= Room(c) /\ Bulk(styles) < SparseBelow(c)]

\* What a pass can end with: the layout of the styles it began with, or of
\* the styles as they are now when they changed while it ran, or a rejection
DetOutcomes ==
    { Layout(state.originalBody.content, lastPass.styles),
      Layout(state.originalBody.content, rootStyle),
      [pages |-> 0, sparse |-> FALSE] }

\* A content arrives and its pass begins
FitDetRecvContent(c) ==
    /\ ~state.contentLoaded
    /\ SetRC(HandleContentUpdate(RC, c))
    /\ UNCHANGED <<hostVars, linkVars, restVars>>

NextFitDet ==
    \/ \E c \in 1..MaxContent : FitDetRecvContent(c)
    \/ \E view \in Views : FitStart(view)
    \/ \E id \in inflight, o \in DetOutcomes : FitPassEnds(id, o.pages, o.sparse)

SpecFitDet == InitFit /\ [][NextFitDet]_vars

\* A shrink run that began on a finished pass reporting two pages, with every
\* shrink parameter above its minimum, has ended
ShrinkRunEnded ==
    /\ fit.at = "done"
    /\ fit.result.direction = "shrink"
    /\ ~fit.start.midPass
    /\ fit.start.pages = 2
    /\ fit.start.allAbove

ExpandRunRolledBack ==
    /\ fit.at = "done"
    /\ fit.result.direction = "expand"
    /\ ~fit.start.midPass
    /\ fit.start.pages = 1
    /\ fit.start.sparse
    /\ fit.rolledBack

\* C12: after such a run the parameter changed by the overflowing step has the
\* value it had before the step and every other parameter is unchanged, one
\* corrective render was asked for, the loop went no further, and the run
\* ends with page count 1.
C12_RollbackRestores ==
    ExpandRunRolledBack =>
        /\ rootStyle = fit.beforeStep
        /\ fit.corrective = 1
        /\ fit.result.pageCount = 1

\* A shrink run of fitToOnePage has ended
ShrinkEnded ==
    /\ fit.at = "done"
    /\ fit.result.direction = "shrink"

\* No shrink strategy can move: every shrink parameter that has a value is
\* at its minimum
ShrinkExhausted == FirstShrink(RC, fit.config) = 0

\* C13: when a shrink run ends, the reported page count is 1, or success is
\* false and the shrink parameters are at their minimum or the iteration
\* count has reached 25; success is true exactly when the page count is 1.
C13_ShrinkEndsFittedOrExhausted ==
    ShrinkEnded =>
        /\ \/ fit.result.pageCount = 1
           \/ /\ ~fit.result.success
              /\ ShrinkExhausted \/ fit.result.iterations = MaxIterations
        /\ fit.result.success <=> fit.result.pageCount = 1

\* The document a pass hands to the oracle when its steps ran in order on a
\* clean baseline: the body as snapshot without pages, the head as snapshot
\* with the page rule injected last, the root carrying the cached styles
InOrderOnCleanDocument(w) ==
    /\ w.body = w.state.originalBody
    /\ w.body.pages = 0
    /\ ~w.head.paged
    /\ w.rootStyle = w.state.currentStyles
    /\ w.head.a4 = (IF w.state.currentStyles["--page-margin"] # Unset
                    THEN w.state.currentStyles["--page-margin"]
                    ELSE Css(7000, "mm"))

\* C15: a pass that begins has restored the baseline (body, then head),
\* re-applied every cached style, injected the page rule and then invoked the
\* oracle, and the document the oracle is invoked on carries no pagination
\* output of an earlier pass.
C15_PassStepsInOrderOnCleanDocument ==
    [][started' > started =>
          /\ started' \in inflight'
          /\ InOrderOnCleanDocument(RC')]_vars

-----------------------------------------------------------------------------
(* The render context with a deterministic oracle: SpecRenderDet *)

\* What the oracle makes of the document it is run on: the layout of the
\* content under the styles of the root element, inside whatever pages the
\* body already carries
Paginate(w, styles) ==
    LET l == Layout(w.body.content, styles)
    IN [pages |-> w.body.pages + l.pages,
        sparse |-> w.body.pages = 0 /\ l.sparse]

\* The oracle reads the styles when it is invoked or, if a style message
\* came in while it ran, possibly afterwards
PaginateOutcomes == {Paginate(RC, lastPass.styles), Paginate(RC, rootStyle)}

\* The record of the passes: when a pass begins, the messages counted since
\* the pass before began become those of the earlier interval
Noted(p, w, isMessage) ==
    IF w.started > started
    THEN [p EXCEPT !.noisePrev = p.noiseCur \/ isMessage, !.noiseCur = FALSE]
    ELSE [p EXCEPT !.noiseCur = @ \/ isMessage]

\* The pass that ends now, as it is remembered
PassRecord(id, o) ==
    [id |-> id, snapshot |-> lastPass.styles,
     baseline |-> <<state.originalBody, state.originalHead>>,
     pages |-> o.pages, sparse |-> o.sparse]

\* The pass that ended before it is kept next to it when the two are
\* consecutive and no content or style message came since the first began
Remembered(id, o) ==
    [pair EXCEPT !.before = IF /\ pair.last.id = id - 1
                               /\ ~pair.noisePrev
                               /\ ~pair.noiseCur
                            THEN pair.last ELSE NoPassRecord,
                 !.last = PassRecord(id, o)]

DetRecvContent(c) ==
    /\ RoomFor(HandleContentUpdate(RC, c))
    /\ SetRC(HandleContentUpdate(RC, c))
    /\ pair' = Noted(pair, HandleContentUpdate(RC, c), TRUE)
    /\ UNCHANGED <<hostVars, linkVars, fit, queueVars, sm, sc>>

DetRecvStyles(styles) ==
    /\ SetRC(HandleStyleUpdate(RC, styles))
    /\ pair' = Noted(pair, RC, TRUE)
    /\ UNCHANGED <<hostVars, linkVars, fit, queueVars, sm, sc>>

DetRecvTrigger(payload) ==
    /\ RoomFor(HandlePagedRender(RC, payload, FALSE))
    /\ SetRC(HandlePagedRender(RC, payload, FALSE))
    /\ pair' = Noted(pair, HandlePagedRender(RC, payload, FALSE), payload # NoStyles)
    /\ UNCHANGED <<hostVars, linkVars, fit, queueVars, sm, sc>>

\* previewer.preview() resolves
DetOracleDone(id, o) ==
    /\ id \in inflight
    /\ SetRC(AfterPreview(RC, id, o.pages, o.sparse))
    /\ pair' = Noted(Remembered(id, o), AfterPreview(RC, id, o.pages, o.sparse), FALSE)
    /\ UNCHANGED <<hostVars, linkVars, fit, queueVars, sm, sc>>

\* previewer.preview() rejects
DetOracleThrows(id) ==
    /\ id \in inflight
    /\ SetRC(AfterPreviewThrew(RC, id))
    /\ pair' = Noted([pair EXCEPT !.last = NoPassRecord, !.before = NoPassRecord],
                     AfterPreviewThrew(RC, id), FALSE)
    /\ UNCHANGED <<hostVars, linkVars, fit, queueVars, sm, sc>>

NextRenderDet ==
    \/ \E c \in 1..MaxContent : DetRecvContent(c)
    \/ \E s \in StylePayloads : DetRecvStyles(s)
    \/ \E p \in StylePayloads \cup {NoStyles} : DetRecvTrigger(p)
    \/ \E id \in 1..MaxPasses, o \in PaginateOutcomes : DetOracleDone(id, o)
    \/ \E id \in 1..MaxPasses : DetOracleThrows(id)

SpecRenderDet == InitRender /\ [][NextRenderDet]_vars

\* Two consecutive passes ended, run on the same style snapshot and the same
\* baseline, with no content or style message since the first began
SamePassTwice ==
    /\ pair.before.id # 0
    /\ pair.before.snapshot = pair.last.snapshot
    /\ pair.before.baseline = pair.last.baseline

\* C14: two consecutive passes with the same style snapshot and the same
\* content baseline, with no content or style message in between, yield the
\* same page count and the same fill (for a deterministic oracle).
C14_SamePassSameResult ==
    SamePassTwice =>
        /\ pair.last.pages = pair.before.pages
        /\ pair.last.sparse = pair.before.sparse

\* Content 1 was laid out twice under styles the host had set, on one page
C14_Witness ==
    /\ SamePassTwice
    /\ state.originalBody.content = 1
    /\ pair.last.snapshot # NoStyles
    /\ pair.last.pages = 1
    /\ pair.last.sparse

\* An auto-fit run is in progress, or a pass it started is still in flight
FitUnsettled ==
    \/ fit.isAutoFitting
    \/ fit.awaiting \in inflight

\* C16: whenever the render-complete signal is present on the body, no
\* auto-fit run is in progress and no pass started by one is in flight.
C16_SignalOnlyAfterFitSettled ==
    "render-complete" \in bodyClass => ~FitUnsettled

-----------------------------------------------------------------------------
(* The auto-fit engine with the host asking for renders during a run: SpecFitBusy *)

\* message 'TRIGGER_PAGED' / 'renderPaged' while the engine is running
FitRecvTrigger ==
    /\ fit.isAutoFitting
    /\ RoomFor(HandlePagedRender(RC, NoStyles, FALSE))
    /\ SetRC(HandlePagedRender(RC, NoStyles, FALSE))
    /\ UNCHANGED <<hostVars, linkVars, restVars>>

NextFitBusy ==
    \/ FitRecvContent
    \/ FitRecvTrigger
    \/ \E view \in Views : FitStart(view)
    \/ \E id \in inflight, pages \in 0..MaxPages, sparse \in BOOLEAN :
          FitPassEnds(id, pages, sparse)

SpecFitBusy == InitFit /\ [][NextFitBusy]_vars

\* C17: every page count that fitToOnePage reads after applying an adjustment
\* is read when no pass is in flight, the pass that included the adjustment
\* having completed; also when render requests from other sources interleave.
C17_ReadsOnlyAfterCompletedPass == ~fit.readMidPass

-----------------------------------------------------------------------------
(* The state manager with its subscribers and callers: SpecStore *)

\* What the callbacks do during one dispatch: at most one of them throws
\* and at most one dispatches
Profiles ==
    { beh \in [{Subscribers[i] : i \in 1..Len(Subscribers)} -> Behaviours] :
        /\ Cardinality({sub \in DOMAIN beh : beh[sub] = "throws"}) <= 1
        /\ Cardinality({sub \in DOMAIN beh : beh[sub] = "dispatches"}) <= 1 }

\* Some code outside dispatches SET_CONTENT; every callback behaves as beh
\* says, and `keep` tells which of the objects handed out is kept from now
\* on in place of the reference held before
OutsideDispatch(beh, keep) ==
    /\ sm.dispatched < MaxStoreDispatches
    /\ LET n == sm.dispatched + 1
           r == ManagerDispatch([sm EXCEPT !.log = <<>>],
                                [type |-> "SET_CONTENT", rev |-> n], beh, 0)
       IN sm' = [r EXCEPT !.returned = IF r.unwinding THEN "threw" ELSE "normal",
                          !.unwinding = FALSE,
                          !.held = IF keep = "none" \/ (keep = "dispatch" /\ r.unwinding)
                                   THEN NoRef
                                   ELSE Ref(keep, HandedOut(keep, n))]
    /\ UNCHANGED <<renderVars, hostVars, linkVars, fit, queueVars, pair, sc>>

\* Some code outside calls getState() or getStateByPath() and keeps the result
CallerReads(from) ==
    /\ sm.held.from # from
    /\ sm' = [sm EXCEPT !.held = Ref(from, FreshCopy)]
    /\ UNCHANGED <<renderVars, hostVars, linkVars, fit, queueVars, pair, sc>>

\* The holder of a reference writes into the object and drops the reference
CallerWrites ==
    /\ sm.held # NoRef
    /\ sm' = [WriteThrough(sm, sm.held) EXCEPT !.held = NoRef]
    /\ UNCHANGED <<renderVars, hostVars, linkVars, fit, queueVars, pair, sc>>

\* Dispatch after dispatch, nothing handed out being kept
NextStore == \E beh \in Profiles : OutsideDispatch(beh, "none")

SpecStore == InitRender /\ [][NextStore]_vars

\* C18: the history holds at most 50 records, the most recent ones in
\* dispatch order; and every callback called for a dispatch finds the state
\* already replaced and the record of that dispatch already in the history.
C18_HistoryBoundedAndWrittenBeforeNotify ==
    /\ Len(sm.history) <= MaxHistory
    /\ Len(sm.history) = Min(sm.dispatched, MaxHistory)
    /\ \A i \in 1..Len(sm.history) :
           sm.history[i].n = sm.dispatched - Len(sm.history) + i
    /\ \A k \in 1..Len(sm.log) :
           /\ sm.log[k].object.n >= sm.log[k].n
           /\ sm.log[k].recorded

\* More than 50 dispatches were made, the last of them with a nested one,
\* and the callbacks were called
C18_Witness ==
    /\ sm.dispatched > MaxHistory + 1
    /\ Len(sm.history) = MaxHistory
    /\ sm.history[1].n = sm.dispatched - MaxHistory + 1
    /\ Len(sm.log) > Len(Subscribers)

\* The callbacks called for dispatch number n, in the order of the calls
CalledFor(n) == SelectSeq(sm.log, LAMBDA e : e.n = n)

\* The number of the outside dispatch that ended last
LastOutside == IF Len(sm.log) = 0 THEN 0 ELSE sm.log[1].n

\* A callback threw while it was called for that dispatch
SubscriberThrew ==
    /\ sm.returned # "none"
    /\ \E k \in 1..Len(sm.log) : sm.log[k].n = LastOutside /\ sm.log[k].threw

\* C19: when a subscriber throws during the notification of a dispatch,
\* every subscriber is still called for that dispatch (once, in order), the
\* state change is kept and dispatch returns normally.
C19_ThrowingSubscriberIsIsolated ==
    SubscriberThrew =>
        /\ sm.returned = "normal"
        /\ [i \in 1..Len(CalledFor(LastOutside)) |-> CalledFor(LastOutside)[i].sub]
              = Subscribers
        /\ sm.state.rev = LastOutside
        /\ sm.object.n >= LastOutside

\* The first callback threw, and so did it in the notification of the
\* dispatch that the second callback made
C19_Witness ==
    /\ SubscriberThrew
    /\ sm.log[1].threw
    /\ Len(sm.log) = 2 * Len(Subscribers)
    /\ sm.returned = "normal"

-----------------------------------------------------------------------------
(* The state manager and what its callers do with what they get: SpecStoreRefs *)

\* A dispatch from outside of which the caller keeps the return value, or a
\* subscriber one of its arguments
KeepingDispatch(beh, keep) ==
    /\ sm.dispatched < MaxDispatches
    /\ OutsideDispatch(beh, keep)

NextStoreRefs ==
    \/ \E beh \in Profiles, keep \in {"none", "dispatch", "newState", "oldState"} :
          KeepingDispatch(beh, keep)
    \/ \E from \in {"getState", "getStateByPath"} : CallerReads(from)
    \/ CallerWrites

SpecStoreRefs == InitRender /\ [][NextStoreRefs]_vars

\* The holder of a reference writes into the object it refers to
Writing ==
    /\ sm.held # NoRef
    /\ sm'.held = NoRef
    /\ sm'.dispatched = sm.dispatched

\* C20: writing into a value obtained from getState, getStateByPath, the
\* return value of dispatch or the oldState/newState arguments of a
\* subscriber never changes what a later getState returns.
C20_WritesNeverReachTheStore ==
    [][Writing => ManagerGetState(sm') = ManagerGetState(sm)]_vars

-----------------------------------------------------------------------------
(* Claims about the debounce of the task processor, checked under SpecQueue *)

\* A burst of accepted triggers is over: the timeout that the last of them
\* set has fired
BurstOver ==
    /\ audit.calls > 0
    /\ ~proc.processingTimeout.armed

\* C21: a burst of accepted triggers, each less than 300 ms after the one
\* before, gets exactly one call of processQueue (the timeout is cleared and
\* set again by every trigger and fires 300 ms after the last) and produces
\* one render pass.
C21_BurstGetsOneCallAndOnePass ==
    /\ proc.processingTimeout.armed =>
           /\ audit.calls = 0
           /\ now <= proc.processingTimeout.due
    /\ BurstOver => audit.calls = 1 /\ audit.begun = 1

-----------------------------------------------------------------------------
(* Claims about the direction and the steps of the fit, checked under SpecFit *)

\* fitToOnePage is called in this step
FitCalled == fit.at = "idle" /\ fit'.at # "idle"

\* C22: fitToOnePage chooses its direction once, from what it measures when it
\* is called: shrink when the page count is above 1, expand when it is 1 and
\* the page is sparse (fill ratio below 0.85), none otherwise; the direction
\* is never changed afterwards, and with direction none the call changes no
\* style, begins no render pass and reports iterations = 0.
C22_DirectionChosenOnce ==
    [][ /\ FitCalled =>
              /\ fit'.start.pages > 1 => fit'.direction = "shrink"
              /\ fit'.start.pages = 1 /\ fit'.start.sparse => fit'.direction = "expand"
              /\ fit'.start.pages = 1 /\ ~fit'.start.sparse => fit'.direction = "none"
              /\ fit'.start.pages = 0 => fit'.direction = "none"
              /\ fit'.direction = "none" =>
                     /\ rootStyle' = rootStyle
                     /\ state' = state
                     /\ started' = started
                     /\ inflight' = inflight
                     /\ fit'.at = "done"
                     /\ fit'.result.direction = "none"
                     /\ fit'.result.iterations = 0
        /\ fit.at # "idle" =>
              /\ fit'.direction = fit.direction
              /\ fit'.at = "done" => fit'.result.direction = fit.direction ]_vars

\* A run called on a rendered page that is not sparse has ended with
\* direction none and no iteration
C22_Witness ==
    /\ fit.at = "done"
    /\ fit.start.pages = 1
    /\ ~fit.start.sparse
    /\ fit.result.direction = "none"
    /\ fit.result.iterations = 0
    /\ state.contentLoaded

\* The parameters whose value on the root element changes in this step
Changed == {k \in CssVars : rootStyle'[k] # rootStyle[k]}

\* The steps of the loops that are behind the run: the iterations counted, and
\* the step whose render the run is waiting for
StepsBefore == IF fit.at = "idle" THEN 0
               ELSE fit.iteration + (IF fit.at \in {"shrink", "expand"} THEN 1 ELSE 0)

StepsAfter == fit'.iteration + (IF fit'.at \in {"shrink", "expand"} THEN 1 ELSE 0)

\* The parameter of the k-th shrink strategy, and its value before this step
ShrinkVar(k) == SliderCfg(ShrinkStrategies[k].slider).cssVar

\* The k-th shrink strategy is at its minimum
AtMin(k) ==
    /\ rootStyle[ShrinkVar(k)] # Unset
    /\ rootStyle[ShrinkVar(k)].n <= GetLimit(fit.config, ShrinkStrategies[k], FALSE) + 1

\* C23: each shrink iteration changes exactly one parameter, the first in the
\* order page margin, body spacing, list spacing, heading scale, line height,
\* font size that is above its minimum, lowers it by one step and then runs
\* exactly one render pass, which the run waits for; a later parameter is
\* touched only when all earlier ones are at their minimum.
C23_OneShrinkStepThenOnePass ==
    [][ fit'.direction = "shrink" /\ fit'.at # "idle" /\ StepsAfter > StepsBefore =>
           /\ StepsAfter = StepsBefore + 1
           /\ fit'.at = "shrink"
           /\ started' = started + 1
           /\ fit'.awaiting = started'
           /\ \E k \in 1..Len(ShrinkStrategies) :
                  /\ Changed = {ShrinkVar(k)}
                  /\ rootStyle[ShrinkVar(k)] # Unset
                  /\ rootStyle'[ShrinkVar(k)].n =
                         rootStyle[ShrinkVar(k)].n - GetStep(fit.config, ShrinkStrategies[k])
                  /\ \A j \in 1..(k - 1) : AtMin(j) ]_vars

\* The parameter of the k-th expand strategy
ExpandVar(k) == SliderCfg(ExpandStrategies[k].slider).cssVar

\* The k-th expand strategy has headroom below its maximum
Headroom(k) ==
    /\ rootStyle[ExpandVar(k)] # Unset
    /\ rootStyle[ExpandVar(k)].n < GetLimit(fit.config, ExpandStrategies[k], TRUE)

\* The expand loop is at its head in this step, after a pass that left one page
ExpandLoopHead ==
    /\ fit.at = "expand"
    /\ fit' # fit
    /\ inflight' = {}
    /\ body'.pages = 1

\* C24: each expand iteration first re-checks sparsity and stops without any
\* change when the page is no longer sparse (fill ratio not below 0.85);
\* otherwise it raises by one step exactly one parameter, the first in the
\* order font size, line height, heading scale, body spacing, list spacing,
\* page margin that has headroom below its maximum, and renders once; when no
\* parameter has headroom the loop stops and keeps the current values.
C24_OneExpandStepThenOnePass ==
    [][ fit'.direction = "expand" /\ fit'.at # "idle" =>
           /\ ExpandLoopHead /\ ~body'.sparse =>
                  /\ rootStyle' = rootStyle
                  /\ started' = started
                  /\ fit'.at = "done"
           /\ ExpandLoopHead /\ (\A k \in 1..Len(ExpandStrategies) : ~Headroom(k)) =>
                  /\ rootStyle' = rootStyle
                  /\ started' = started
                  /\ fit'.at = "done"
           /\ StepsAfter > StepsBefore =>
                  /\ StepsAfter = StepsBefore + 1
                  /\ fit'.at = "expand"
                  /\ started' = started + 1
                  /\ fit'.awaiting = started'
                  /\ \E k \in 1..Len(ExpandStrategies) :
                         /\ Changed = {ExpandVar(k)}
                         /\ Headroom(k)
                         /\ rootStyle'[ExpandVar(k)].n =
                                rootStyle[ExpandVar(k)].n + GetStep(fit.config, ExpandStrategies[k])
                         /\ \A j \in 1..(k - 1) : ~Headroom(j) ]_vars

-----------------------------------------------------------------------------
(* Termination of the fit: SpecFitLive, SpecFit with every pass of the oracle
   coming to an end (preview() resolves or rejects) *)

FitPassEndsSome ==
    \E id \in inflight, pages \in 0..MaxPages, sparse \in BOOLEAN :
        FitPassEnds(id, pages, sparse)

SpecFitLive == InitFit /\ [][NextFit]_vars /\ WF_vars(FitPassEndsSome)

\* What a run may use, and what it leaves when it has ended
FitBounded ==
    /\ fit.iteration <= MaxIterations
    /\ fit.renders <= MaxIterations + 1
    /\ fit.corrective <= 1
    /\ fit.renders <= fit.iteration + 1 + fit.corrective
    /\ fit.at = "done" =>
           /\ ~fit.isAutoFitting
           /\ fit.result.attempted
           /\ fit.result.iterations = fit.iteration
           /\ fit.result.iterations <= MaxIterations

-----------------------------------------------------------------------------
(* Claims about the result of the fit, checked under SpecFit *)

\* A shrink run ends in this step with more than one page
ShrinkStopsShort ==
    /\ fit.at # "done"
    /\ fit'.at = "done"
    /\ fit'.direction = "shrink"
    /\ fit'.result.pageCount > 1

\* C26: when a shrink run stops, at the iteration ceiling or with no parameter
\* left to lower, while the page count is still above 1, the result has
\* success = false and every parameter keeps the value the last step reached:
\* the end of the run changes no parameter, and no step of a shrink run, nor
\* anything after it, raises a parameter back.
C26_ShrinkFailureKeepsStyles ==
    [][ /\ ShrinkStopsShort =>
              /\ ~fit'.result.success
              /\ \/ fit'.result.iterations = MaxIterations
                 \/ \A k \in 1..Len(ShrinkStrategies) :
                        \/ rootStyle'[ShrinkVar(k)] = Unset
                        \/ rootStyle'[ShrinkVar(k)].n <=
                              GetLimit(fit.config, ShrinkStrategies[k], FALSE) + 1
              /\ StepsAfter = StepsBefore => rootStyle' = rootStyle
              /\ state'.currentStyles = rootStyle'
        /\ fit'.direction = "shrink" /\ fit'.at # "idle" =>
              \A k \in CssVars : rootStyle'[k].n <= rootStyle[k].n ]_vars

\* A shrink run has ended at the ceiling with two pages and a failure, its
\* styles below the ones it began with
C26_Witness ==
    /\ fit.at = "done"
    /\ fit.result.direction = "shrink"
    /\ fit.result.iterations = MaxIterations
    /\ fit.result.pageCount = 2
    /\ ~fit.result.success
    /\ rootStyle # fit.start.styles
    /\ \A k \in CssVars : rootStyle[k].n <= fit.start.styles[k].n

\* C27: every result fitToOnePage publishes reports a page count of at least
\* 1, whatever the render executor was doing when the run began and whatever
\* passes ran during it.
C27_ResultHasAPage ==
    fit.result.attempted => fit.result.pageCount >= 1

-----------------------------------------------------------------------------
(* Claims about the baseline and the store-level flag *)

\* C28: in every reachable state, also after a second content load that
\* follows a completed pass or arrives while a pass is in flight, the stored
\* baseline state.originalBody is the unrendered markup of the content that was
\* loaded and holds no pagination output of any pass.
C28_BaselinePristine ==
    /\ state.originalBody.pages = 0
    /\ ~state.originalBody.sparse
    /\ state.contentLoaded => state.originalBody.content \in 1..MaxContent

\* The pass of the processor ends in this step, and the timeout fired while
\* it was executing: that call of processQueue began no pass, and no trigger
\* has set the timeout again since
PassEndsAfterFiring ==
    /\ proc.isProcessing
    /\ ~proc.processingTimeout.armed
    /\ audit.calls = 1
    /\ audit.begun = 0
    /\ audit'.inFlight < audit.inFlight

\* C29: when the debounce timeout fires while a pass of the processor is
\* executing, the request is kept, as one pending request, and is executed
\* after the running pass completes: while the pass runs the queue still
\* holds the task, and when the pass ends a pass for it begins (or is
\* scheduled).
C29_FiringDuringPassIsKept ==
    [][ PassEndsAfterFiring =>
           /\ store.pagedjs.renderQueue # <<>>
           /\ \/ proc'.isProcessing
              \/ proc'.processingTimeout.armed ]_vars

\* C30: the store-level render flag is exclusive: pagedjs.isRendering is true
\* for at most one pass at a time, at most one executeRenderTask call of the
\* processor is in flight at any instant, and whenever no call is in flight
\* the flag is false.
C30_RenderFlagExclusive ==
    /\ audit.inFlight <= 1
    /\ store.pagedjs.isRendering => audit.inFlight = 1
    /\ audit.inFlight = 0 => ~store.pagedjs.isRendering
    /\ proc.isProcessing <=> audit.inFlight = 1

\* The timeout fired while a pass was executing and began no second pass:
\* the flag is still that of the one pass in flight
C30_Witness ==
    /\ store.pagedjs.isRendering
    /\ audit.inFlight = 1
    /\ ~proc.processingTimeout.armed
    /\ audit.calls = 1
    /\ audit.begun = 0
    /\ Len(store.pagedjs.renderQueue) >= 2

-----------------------------------------------------------------------------
(* Claims about failures and priorities of the task processor, checked under
   SpecQueue *)

\* The pass of the processor ends in this step with executeRenderTask
\* rejected: the queue is not emptied
PassFails ==
    /\ proc.isProcessing
    /\ audit'.inFlight < audit.inFlight
    /\ store'.pagedjs.renderQueue # <<>>

\* The timeout fires in this step
Fires == proc.processingTimeout.armed /\ ~proc'.processingTimeout.armed

\* C31: when executeRenderTask fails inside processQueue the failure is data:
\* pagedjs.error holds the message, pagedjs.isRendering and isProcessing are
\* false afterwards and processQueue comes to its end; and a later render
\* trigger starts a pass again: the timeout it sets, when it fires with the
\* error still recorded and no pass executing, begins a pass and clears the
\* error.
C31_FailureIsData ==
    [][ /\ PassFails =>
              /\ store'.pagedjs.error = "failed"
              /\ ~store'.pagedjs.isRendering
              /\ ~proc'.isProcessing
              /\ audit'.inFlight = 0
              /\ store'.pagedjs.renderQueue = store.pagedjs.renderQueue
        /\ Fires /\ store.pagedjs.error = "failed" =>
              /\ proc'.isProcessing
              /\ store'.pagedjs.isRendering
              /\ store'.pagedjs.error = "null"
              /\ audit'.inFlight = 1 ]_vars

\* A pass has failed: the error is recorded, nothing is executing, and a
\* trigger has set the timeout again
C31_Witness ==
    /\ store.pagedjs.error = "failed"
    /\ ~store.pagedjs.isRendering
    /\ ~proc.isProcessing
    /\ audit.inFlight = 0
    /\ proc.processingTimeout.armed
    /\ store.pagedjs.renderQueue # <<>>

\* A pass of the processor begins in this step
PassBegins == audit'.inFlight > audit.inFlight

\* C32: when processQueue runs with tasks of different reasons in the queue,
\* the task it executes is one of the queue with the lowest priority number:
\* a content change (1) before a style update (2) before a UI-only change (3).
C32_LowestPriorityNumberFirst ==
    [][ PassBegins =>
           LET queue == store.pagedjs.renderQueue
           IN /\ \E k \in 1..Len(queue) : queue[k] = audit'.task
              /\ \A k \in 1..Len(queue) : audit'.task.priority <= queue[k].priority
              /\ (\E k \in 1..Len(queue) : queue[k].reason = "SET_CONTENT") =>
                     audit'.task.reason = "SET_CONTENT"
              /\ (\A k \in 1..Len(queue) : queue[k].reason # "SET_CONTENT") /\
                 (\E k \in 1..Len(queue) : queue[k].reason = "UPDATE_STYLES") =>
                     audit'.task.reason = "UPDATE_STYLES" ]_vars

\* A pass is executing for a content change that was queued behind a UI-only
\* change and a style update
C32_Witness ==
    /\ proc.isProcessing
    /\ Len(store.pagedjs.renderQueue) >= 3
    /\ store.pagedjs.renderQueue[1].reason = "UI_STATE_CHANGE"
    /\ store.pagedjs.renderQueue[2].reason = "UPDATE_STYLES"
    /\ store.pagedjs.renderQueue[3].reason = "SET_CONTENT"
    /\ audit.task = store.pagedjs.renderQueue[3]

-----------------------------------------------------------------------------
(* Claims about the subscribers of the state manager, checked under SpecStore *)

\* The action type of dispatch number n: the outside dispatch is SET_CONTENT,
\* a dispatch made by a callback is the nested action
TypeOfDispatch(n) == IF n = LastOutside THEN "SET_CONTENT" ELSE NestedAction.type

\* The topic key under which a callback is subscribed is the topic of the
\* action type
Concerns(key, type) ==
    \/ key = "content" /\ type = "SET_CONTENT"
    \/ key = "styles" /\ type = "UPDATE_STYLES"
    \/ key = "renderQueue" /\ type = "PAGEDJS_STATE_CHANGE"

\* C33: subscribers are scoped by topic: a callback subscribed under one topic
\* key is called only for the dispatches that concern that topic, not for
\* every dispatch.
C33_SubscribersScopedByTopic ==
    \A k \in 1..Len(sm.log) :
        Concerns(sm.log[k].sub, TypeOfDispatch(sm.log[k].n))

-----------------------------------------------------------------------------
(* The handshake with messages that are delivered: SpecHandshakeLive. The
   host initialises, the interval keeps firing while it is set, and every
   message posted is delivered. The interval fires a bounded number of times
   in the model; one of the firings is kept for the time after the host has
   registered its listener, as the real interval never runs out. *)

RenderTickLive ==
    /\ ctl.isInitialized \/ ticks + ctl.userCmds < MaxEvents - 1
    /\ RenderTick

NextHandshakeLive ==
    \/ HostInit
    \/ HostRecv
    \/ \E c \in InitialContents : HostFetchDone(c)
    \/ RenderTickLive
    \/ RenderRecv
    \/ PassEnds

SpecHandshakeLive ==
    /\ InitHandshake
    /\ [][NextHandshakeLive]_vars
    /\ WF_vars(HostInit)
    /\ WF_vars(HostRecv)
    /\ WF_vars(RenderTickLive)
    /\ WF_vars(RenderRecv)

\* Both sides are through the handshake
Operational ==
    /\ ctl.isIframeReady
    /\ ctl.messageQueue = <<>>
    /\ state.isHandshakeComplete
    /\ ~state.handshakeInterval

\* C34: when the render context has loaded and the messages between the two
\* contexts are delivered, then eventually, and from then on, the host is
\* operational (isIframeReady, messageQueue empty) and the render context has
\* completed the handshake (isHandshakeComplete, the READY interval cleared),
\* whichever of the two contexts finished initialising first.
C34_HandshakeCompletes == <>[]Operational

\* The render context was first: a READY reached the host window before the
\* listener was registered and was lost, a later one started the host, and
\* both sides are through
C34_Witness ==
    /\ Operational
    /\ parentRead >= 2
    /\ toParent[1] = "READY"
    /\ toParent[2] = "READY"
    /\ ctl.startups = 1

-----------------------------------------------------------------------------
(* Claims about the replay of the pending request, checked under SpecRender *)

\* A pass ends in this step and its `finally` block replays the pending
\* request, which begins a pass
Replays ==
    /\ state.pendingRenderRequest.set
    /\ inflight # {}
    /\ started' > started

\* C35: the replay of a pending render request never undoes a newer style
\* value: a variable that handleStyleUpdate set after the pending snapshot
\* was taken (the cache differs from the snapshot) keeps the newer value in
\* the cache, and the pass the replay begins renders with it.
C35_ReplayKeepsNewerStyles ==
    [][ Replays =>
           \A k \in CssVars :
               state.currentStyles[k] # state.pendingRenderRequest.styles[k] =>
                   /\ state'.currentStyles[k] = state.currentStyles[k]
                   /\ rootStyle'[k] = state.currentStyles[k] ]_vars

-----------------------------------------------------------------------------
(* Claims about the host after the handshake, checked under SpecHandshake *)

\* C36: the host runs its start-up sequence once per session: a READY that
\* arrives when the host is already operational starts no second run of it,
\* no second sending of the initial styles and no second load of the initial
\* content.
C36_StartupOncePerSession ==
    [][ ctl.isIframeReady =>
           /\ ctl'.startups = ctl.startups
           /\ ctl'.fetches <= ctl.fetches
           /\ parentRead' = parentRead + 1 /\ toParent[parentRead'] = "READY" =>
                  posted' = posted ]_vars

-----------------------------------------------------------------------------
(* Claims about the status events of a pass, checked under SpecRender *)

\* C37: every 'rendering' status event is followed by a 'rendered' or error
\* status event, for passes that succeed and for passes whose oracle call
\* throws: once no pass is in flight, no 'rendering' event is left without
\* one after it (the host controls it disabled are enabled again).
C37_RenderingIsFollowed ==
    inflight = {} =>
        \A i \in 1..Len(toParent) :
            toParent[i] = "rendering" =>
                \E j \in (i + 1)..Len(toParent) : toParent[j] \in {"rendered", "error"}

-----------------------------------------------------------------------------
(* Claims about the direction of the steps of a fit, checked under SpecFit *)

\* The rollback of the expand loop is taken in this step
RollsBack == fit'.rolledBack /\ ~(fit.at # "idle" /\ fit.rolledBack)

\* C38: within one fitToOnePage run every parameter moves in one direction
\* only: in a shrink run no value ever increases; in an expand run no value
\* ever decreases, except that the single rollback puts the parameter of the
\* last step back to the value it had before that step; the direction of a
\* run never changes, so a run that shrinks never expands and the reverse.
C38_OneDirectionPerRun ==
    [][ fit'.at # "idle" =>
           /\ fit.at # "idle" => fit'.direction = fit.direction
           /\ fit.at # "idle" /\ fit.rolledBack => fit'.corrective = fit.corrective
           /\ fit'.corrective <= 1
           /\ fit'.direction = "shrink" =>
                  \A k \in CssVars : rootStyle'[k].n <= rootStyle[k].n
           /\ fit'.direction = "none" => rootStyle' = rootStyle
           /\ fit'.direction = "expand" =>
                  \A k \in CssVars :
                      rootStyle'[k].n < rootStyle[k].n =>
                          /\ RollsBack
                          /\ k = SliderCfg(fit'.lastAdjusted.slider).cssVar
                          /\ rootStyle'[k].n = fit'.lastAdjusted.prevVal ]_vars

\* An expand run has ended after steps that raised values and one rollback
\* that took the last of them back
C38_Witness ==
    /\ fit.at = "done"
    /\ fit.result.direction = "expand"
    /\ fit.result.iterations >= 1
    /\ fit.rolledBack
    /\ fit.corrective = 1
    /\ \A k \in CssVars : rootStyle[k].n >= fit.start.styles[k].n
    /\ \E k \in CssVars : rootStyle[k].n > fit.start.styles[k].n

-----------------------------------------------------------------------------
(* Claims about the listener of the task processor, checked under SpecQueue *)

\* An action is dispatched from outside in this step
Dispatched == audit'.dispatched = audit.dispatched + 1

\* The dispatch of this step was tagged and its task was queued
Enqueued ==
    /\ Len(store'.pagedjs.renderQueue) = Len(store.pagedjs.renderQueue) + 1
    /\ SubSeq(store'.pagedjs.renderQueue, 1, Len(store.pagedjs.renderQueue))
          = store.pagedjs.renderQueue

\* C39: each dispatched action that the middleware tags with triggersRender
\* appends exactly one task to pagedjs.renderQueue and sets the debounce
\* timeout anew, 300 ms from now; the PAGEDJS_STATE_CHANGE that the processor
\* dispatches from its callback to store the queue is not tagged, so the
\* outside dispatch makes exactly one nested dispatch (two history records)
\* and the queue grows by one task only; an action that is not tagged makes
\* no nested dispatch and leaves queue and timeout alone.
C39_OneTaskPerTaggedAction ==
    [][ Dispatched =>
           \/ /\ Enqueued
              /\ store'.history = store.history + 2
              /\ proc'.processingTimeout = [armed |-> TRUE, due |-> now + DebounceDelay]
              /\ store'.pagedjs.renderQueue[Len(store'.pagedjs.renderQueue)].timestamp
                    \in {now - 1, now}
           \/ /\ store'.pagedjs.renderQueue = store.pagedjs.renderQueue
              /\ store'.history = store.history + 1
              /\ proc' = proc ]_vars

\* Two tagged actions of one burst: two tasks queued, one nested dispatch
\* each, the timeout set anew by the second
C39_Witness ==
    /\ audit.dispatched = 2
    /\ Len(store.pagedjs.renderQueue) = 2
    /\ store.history = 4
    /\ proc.processingTimeout.armed
    /\ proc.processingTimeout.due = now + DebounceDelay
    /\ now > 0

-----------------------------------------------------------------------------
(* The StyleController before and after the store is there: SpecStyle *)

\* The style operations asked for in one session
MaxStyleOps == 3

\* The sliders whose variables are set
StyleSliders == {1, 4}

\* Some code calls applyCSSVariable (a slider is moved, a default is loaded)
StyleRequest(slider, throws) ==
    /\ Len(sc.requested) < MaxStyleOps
    /\ LET op == StyleOperation(Len(sc.requested) + 1, slider, throws)
       IN sc' = ApplyCSSVariable([sc EXCEPT !.requested = Append(@, op.id)], op)
    /\ UNCHANGED <<renderVars, hostVars, linkVars, fit, queueVars, pair, sm>>

\* window.ResumeState is there and init() goes on after its await
StyleInitResumes ==
    /\ ~sc.isStateManaged
    /\ sc' = StyleInit(sc)
    /\ UNCHANGED <<renderVars, hostVars, linkVars, fit, queueVars, pair, sm>>

NextStyle ==
    \/ \E slider \in StyleSliders, throws \in BOOLEAN : StyleRequest(slider, throws)
    \/ StyleInitResumes

SpecStyle == InitRender /\ [][NextStyle]_vars

\* The ids of a sequence of operations or dispatches
Ids(seq) == [i \in 1..Len(seq) |-> seq[i].id]

\* C40: style operations asked of the StyleController before the store is
\* available are not lost or reordered: until the store is connected each is
\* queued and nothing is dispatched; once it is connected the queue is empty
\* and every operation asked for so far has been executed exactly once, in
\* the order asked, as a SET_STYLES dispatch, also the ones that follow an
\* operation that threw.
C40_QueuedStyleOpsRunOnceInOrder ==
    /\ ~sc.isStateManaged =>
           /\ sc.dispatches = <<>>
           /\ Ids(sc.pendingOperations) = sc.requested
    /\ sc.isStateManaged =>
           /\ sc.pendingOperations = <<>>
           /\ Ids(sc.dispatches) = sc.requested
           /\ \A i \in 1..Len(sc.dispatches) : sc.dispatches[i].type = "SET_STYLES"

\* Three operations were queued, the first of them threw when the store was
\* connected, and the two after it were dispatched
C40_Witness ==
    /\ sc.isStateManaged
    /\ Len(sc.dispatches) = 3
    /\ sc.currentStyles = <<2, 3>>
    /\ sc.pendingOperations = <<>>

====
